---- MODULE Spec2Model ----
(***************************************************************************)
(* The statistics stores of the template brain (brain.py) and of the       *)
(* outreach brain (brain_leads.py): the JSON files they keep, the          *)
(* load / mutate / save cycles of the selection and recording functions,   *)
(* run by one or two operating-system processes that share the files.      *)
(*                                                                         *)
(* Numbers that the code keeps as floats are kept exact here: a template   *)
(* weight or boost is counted in halves (1.5 is 3), and a score is a pair  *)
(* of integers over a common denominator.                                  *)
(***************************************************************************)
EXTENDS Integers, Sequences, FiniteSets, TLC

(* ---- bounds of the model ---------------------------------------------- *)

\* calls started in one run, over all processes
MaxCalls == 2
\* deletions / corruptions of a stats file from outside the program
MaxTamper == 1
\* random.random() is drawn as k / RandSteps, k in 0 .. RandSteps - 1
RandSteps == 4
\* the noise random.random() * 0.01 is drawn as j / (100 * JitterSteps),
\* j in 0 .. JitterSteps - 1
JitterSteps == 2

Procs == {1, 2}

(* ---- configuration ---------------------------------------------------- *)

\* what the module globals hold: "shipped", the lists the source assigns, or
\* "empty" when TEMPLATES, GLOBAL_NICHES and GLOBAL_COUNTRIES are empty lists
VARIABLE config

\* Python's None, as a template id and as a text
NoneVal == "None"
NoneText == << "None" >>

(* ---- text ------------------------------------------------------------- *)
\* A str is a tuple of one-character strings.

ToLower ==
    ("A" :> "a") @@ ("B" :> "b") @@ ("C" :> "c") @@ ("D" :> "d") @@
    ("E" :> "e") @@ ("F" :> "f") @@ ("G" :> "g") @@ ("H" :> "h") @@
    ("I" :> "i") @@ ("J" :> "j") @@ ("K" :> "k") @@ ("L" :> "l") @@
    ("M" :> "m") @@ ("N" :> "n") @@ ("O" :> "o") @@ ("P" :> "p") @@
    ("Q" :> "q") @@ ("R" :> "r") @@ ("S" :> "s") @@ ("T" :> "t") @@
    ("U" :> "u") @@ ("V" :> "v") @@ ("W" :> "w") @@ ("X" :> "x") @@
    ("Y" :> "y") @@ ("Z" :> "z")

\* str.lower()
lower(s) ==
    [i \in 1..Len(s) |-> IF s[i] \in DOMAIN ToLower THEN ToLower[s[i]] ELSE s[i]]

\* text.startswith(kw): the keyword looked for at the start of the text only
ContainsAtStart(text, kw) ==
    /\ Len(kw) <= Len(text)
    /\ \A j \in 1..Len(kw) : text[j] = kw[j]

\* kw in text
Contains(text, kw) ==
    \E i \in 0..(Len(text) - Len(kw)) :
        \A j \in 1..Len(kw) : text[i + j] = kw[j]

\* any(kw in text for kw in kws)
AnyIn(kws, text) ==
    \E n \in 1..Len(kws) : Contains(text, kws[n])

TradeKeywords ==
    << <<"r", "o", "o", "f">>,
       <<"s", "o", "l", "a", "r">>,
       <<"a", "u", "t", "o">>,
       <<"c", "a", "r">>,
       <<"g", "a", "r", "a", "g", "e">>,
       <<"c", "o", "n", "s", "t", "r", "u", "c", "t", "i", "o", "n">>,
       <<"p", "l", "u", "m", "b">>,
       <<"e", "l", "e", "c", "t", "r", "i", "c">> >>

FoodKeywords ==
    << <<"r", "e", "s", "t", "a", "u", "r", "a", "n", "t">>,
       <<"c", "a", "f", "e">>,
       <<"c", "a", "f", "e-acute">>,
       <<"f", "o", "o", "d">>,
       <<"d", "i", "n", "i", "n", "g">>,
       <<"b", "i", "s", "t", "r", "o">> >>

RealEstateKeywords ==
    << <<"r", "e", "a", "l", " ", "e", "s", "t", "a", "t", "e">>,
       <<"r", "e", "a", "l", "t", "o", "r">>,
       <<"p", "r", "o", "p", "e", "r", "t", "y">>,
       <<"e", "s", "t", "a", "t", "e", " ", "a", "g", "e", "n", "t">>,
       <<"b", "r", "o", "k", "e", "r">> >>

ProfessionalKeywords ==
    << <<"l", "a", "w">>,
       <<"t", "a", "x">>,
       <<"c", "o", "n", "s", "u", "l", "t">>,
       <<"a", "c", "c", "o", "u", "n", "t">>,
       <<"f", "i", "r", "m">>,
       <<"a", "g", "e", "n", "c", "y">> >>

\* the industry texts a caller passes
AllIndustries ==
    { NoneText,
      <<"r", "e", "s", "t", "a", "u", "r", "a", "n", "t", " ",
        "d", "o", "w", "n", "t", "o", "w", "n">>,
      <<"R", "o", "o", "f", "i", "n", "g", " ", "L", "a", "w", " ",
        "R", "e", "a", "l", "t", "o", "r">> }

(* ---- the template catalog --------------------------------------------- *)
\* weight is in halves: 2 is the 1.0 of the source

\* the module global TEMPLATES: the list the source assigns, or no template
TEMPLATES ==
    IF config = "empty" THEN << >>
    ELSE << [id |-> "basic_clean",        weight |-> 2],
            [id |-> "pro_modern",         weight |-> 2],
            [id |-> "premium_gradient",   weight |-> 2],
            [id |-> "ultra_dark",         weight |-> 2],
            [id |-> "restaurant_premium", weight |-> 2],
            [id |-> "realtor_premium",    weight |-> 2] >>

TemplateIds == { TEMPLATES[i].id : i \in 1..Len(TEMPLATES) }

ZeroBundle == [uses |-> 0, success |-> 0]

\* {t["id"]: {"uses": 0, "success": 0} for t in TEMPLATES}
ZeroTemplateStats == [tid \in TemplateIds |-> ZeroBundle]

\* the template ids whose entry of niche_boosts the keyword groups that
\* match industry add to
boosted_ids(industry) ==
    LET industry_lower == IF industry = NoneText THEN << >> ELSE lower(industry)
    IN  (IF AnyIn(TradeKeywords, industry_lower)
         THEN {"pro_modern", "ultra_dark"} ELSE {})
        \cup (IF AnyIn(FoodKeywords, industry_lower)
              THEN {"restaurant_premium", "premium_gradient"} ELSE {})
        \cup (IF AnyIn(RealEstateKeywords, industry_lower)
              THEN {"realtor_premium", "pro_modern"} ELSE {})
        \cup (IF AnyIn(ProfessionalKeywords, industry_lower)
              THEN {"basic_clean", "pro_modern"} ELSE {})

\* how the scoring of choose_template ends before the wheel is turned:
\* niche_boosts[id] += .. raises KeyError for an id that is no key of
\* niche_boosts, scored[0][0] raises IndexError when scored is empty
scoring_error(industry) ==
    IF ~(boosted_ids(industry) \subseteq TemplateIds) THEN "KeyError"
    ELSE IF Len(TEMPLATES) = 0 THEN "IndexError"
    ELSE "none"

\* niche_boosts with no keyword group acted on: the neutral boosts it
\* starts from
niche_boosts_neutral(industry) == [tid \in TemplateIds |-> 0]

\* niche_boosts as choose_template builds it: template id -> boost, in halves
niche_boosts(industry) ==
    LET industry_lower == IF industry = NoneText THEN << >> ELSE lower(industry)
        trade == AnyIn(TradeKeywords, industry_lower)
        food  == AnyIn(FoodKeywords, industry_lower)
        real  == AnyIn(RealEstateKeywords, industry_lower)
        prof  == AnyIn(ProfessionalKeywords, industry_lower)
        t == IF trade THEN 1 ELSE 0
        f == IF food THEN 1 ELSE 0
        r == IF real THEN 1 ELSE 0
        c == IF prof THEN 1 ELSE 0
    IN  [tid \in TemplateIds |->
            CASE tid = "pro_modern"         -> 3 * t + 2 * r + 2 * c
              [] tid = "ultra_dark"         -> 2 * t
              [] tid = "restaurant_premium" -> 6 * f
              [] tid = "premium_gradient"   -> 2 * f
              [] tid = "realtor_premium"    -> 6 * r
              [] tid = "basic_clean"        -> 3 * c
              [] OTHER                      -> 0]

\* stats.get(tid, {"uses": 0, "success": 0})
BundleOf(stats, tid) ==
    IF tid \in DOMAIN stats THEN stats[tid] ELSE ZeroBundle

\* success_rate with the prior of one trial only: (success + 1) / (uses + 1)
success_rate_one_trial(s) == [num |-> s.success + 1, den |-> s.uses + 1]

\* success_rate = (success + 1) / (uses + 2) of choose_template, as the
\* fraction num / den
success_rate(s) == [num |-> s.success + 1, den |-> s.uses + 2]

RECURSIVE DenProd(_, _)
\* the common denominator of the smoothed rates: the product of (uses + 2)
\* over the first n templates
DenProd(stats, n) ==
    IF n = 0 THEN 1
    ELSE success_rate(BundleOf(stats, TEMPLATES[n].id)).den
           * DenProd(stats, n - 1)

\* Scored with the rate taken off the score: "-" written for the last "+"
ScoredLess(stats, industry) ==
    LET boosts == niche_boosts(industry)
        D == DenProd(stats, Len(TEMPLATES))
    IN  [i \in 1..Len(TEMPLATES) |->
            LET t == TEMPLATES[i]
                rate == success_rate(BundleOf(stats, t.id))
            IN  (t.weight + boosts[t.id]) * D
                - 4 * rate.num * (D \div rate.den)]

\* the list scored of choose_template, each score times
\* 2 * DenProd(stats, Len(TEMPLATES)):
\*   success_rate = (success + 1) / (uses + 2)
\*   score = t["weight"] + niche_boosts[tid] + success_rate * 2.0
Scored(stats, industry) ==
    LET boosts == niche_boosts(industry)
        D == DenProd(stats, Len(TEMPLATES))
    IN  [i \in 1..Len(TEMPLATES) |->
            LET t == TEMPLATES[i]
                rate == success_rate(BundleOf(stats, t.id))
            IN  (t.weight + boosts[t.id]) * D
                + 4 * rate.num * (D \div rate.den)]

RECURSIVE SumTo(_, _)
\* scored[0] + ... + scored[n - 1]
SumTo(scored, n) ==
    IF n = 0 THEN 0 ELSE scored[n] + SumTo(scored, n - 1)

\* Roulette with "r < running" written for "r <= running"
RouletteStrict(stats, industry, k) ==
    LET scored  == Scored(stats, industry)
        running == [i \in 1..Len(TEMPLATES) |-> SumTo(scored, i)]
        total   == running[Len(TEMPLATES)]
        hits    == { i \in 1..Len(TEMPLATES) :
                       k * total < RandSteps * running[i] }
    IN  IF hits = {} THEN TEMPLATES[1].id
        ELSE TEMPLATES[CHOOSE i \in hits : \A j \in hits : i <= j].id

\* the roulette wheel of choose_template: r = (k / RandSteps) * total, the
\* first template with r <= running, scored[0][0] when there is none
Roulette(stats, industry, k) ==
    LET scored  == Scored(stats, industry)
        running == [i \in 1..Len(TEMPLATES) |-> SumTo(scored, i)]
        total   == running[Len(TEMPLATES)]
        hits    == { i \in 1..Len(TEMPLATES) :
                       k * total <= RandSteps * running[i] }
    IN  IF hits = {} THEN TEMPLATES[1].id
        ELSE TEMPLATES[CHOOSE i \in hits : \A j \in hits : i <= j].id

\* RecordUsage with "= 1" written for "+= 1"
RecordUsageAssigned(stats, tid) ==
    LET b == BundleOf(stats, tid)
    IN  [u \in DOMAIN stats \cup {tid} |->
            IF u = tid THEN [b EXCEPT !.uses = 1] ELSE stats[u]]

\* stats[chosen["id"]] = zero bundle if absent; stats[chosen["id"]]["uses"] += 1
RecordUsage(stats, tid) ==
    LET b == BundleOf(stats, tid)
    IN  [u \in DOMAIN stats \cup {tid} |->
            IF u = tid THEN [b EXCEPT !.uses = @ + 1] ELSE stats[u]]

\* RecordSuccess with "= 1" written for "+= 1": a success flag, not a count
RecordSuccessOnce(stats, tid, success) ==
    LET b == BundleOf(stats, tid)
    IN  [u \in DOMAIN stats \cup {tid} |->
            IF u = tid
            THEN (IF success THEN [b EXCEPT !.success = 1] ELSE b)
            ELSE stats[u]]

\* the body of record_template_result between its load and its save
RecordSuccess(stats, tid, success) ==
    LET b == BundleOf(stats, tid)
    IN  [u \in DOMAIN stats \cup {tid} |->
            IF u = tid
            THEN (IF success THEN [b EXCEPT !.success = @ + 1] ELSE b)
            ELSE stats[u]]

\* PreferredTemplate with the lookup loop never finding the id
PreferredTemplateIgnored(preferred_template_id) == NoneVal

\* the catalog lookup of build_prompt_for_business: the preferred id when it
\* is truthy and names a template, None otherwise
PreferredTemplate(preferred_template_id) ==
    IF preferred_template_id \notin {NoneVal, ""}
       /\ \E i \in 1..Len(TEMPLATES) : TEMPLATES[i].id = preferred_template_id
    THEN preferred_template_id
    ELSE NoneVal

(* ---- brain_leads.py: the store and its pure functions ------------------- *)

\* the module global GLOBAL_NICHES: the list the source assigns, or no niche
GLOBAL_NICHES ==
    IF config = "empty" THEN << >>
    ELSE << "restaurant", "cafe", "auto repair", "car dealer", "clinic",
            "dentist", "salon", "barber", "spa", "real estate", "roofing",
            "cleaning", "fitness", "law firm", "photography", "ecommerce",
            "coffee shop", "pet grooming", "accounting" >>

\* the module global GLOBAL_COUNTRIES, likewise
GLOBAL_COUNTRIES ==
    IF config = "empty" THEN << >>
    ELSE << "Japan", "USA", "UK", "Canada", "Australia", "Germany", "France",
            "UAE", "Singapore", "India" >>

base_subjects ==
    << "We built a website for your business",
       "Your new website preview is ready",
       "Website proposal for your company",
       "Exclusive AI website demo for you",
       "Your business now has an AI website" >>

Range(seq) == { seq[i] : i \in 1..Len(seq) }

ZeroBucket == [sent |-> 0, opens |-> 0, clicks |-> 0, conversions |-> 0]

NoBuckets == << >>

\* a store of the outreach brain; last_updated, a timestamp no function
\* reads, is left out
OStats(niches, countries, subjects, ts, to, tc, tv) ==
    [niches |-> niches, countries |-> countries, subjects |-> subjects,
     total_sent |-> ts, total_opens |-> to, total_clicks |-> tc,
     total_conversions |-> tv]

\* DEFAULT_STATS of a process whose bucket dicts are d: the totals are ints
\* and stay 0, the three dicts are objects that a shallow copy shares
DefaultStatsOf(d) ==
    OStats(d.niches, d.countries, d.subjects, 0, 0, 0, 0)

Bool2Int(b) == IF b THEN 1 ELSE 0

\* Bumped with the flags read as a funnel: a conversion counts as a click
\* and an open, a click as an open
BumpedFunnel(bucket, key, opened, clicked, converted) ==
    LET b == IF key \in DOMAIN bucket THEN bucket[key] ELSE ZeroBucket
    IN  [sent        |-> b.sent + 1,
         opens       |-> b.opens + Bool2Int(opened \/ clicked \/ converted),
         clicks      |-> b.clicks + Bool2Int(clicked \/ converted),
         conversions |-> b.conversions + Bool2Int(converted)]

\* the entry of key after one send with these flags
Bumped(bucket, key, opened, clicked, converted) ==
    LET b == IF key \in DOMAIN bucket THEN bucket[key] ELSE ZeroBucket
    IN  [sent        |-> b.sent + 1,
         opens       |-> b.opens + Bool2Int(opened),
         clicks      |-> b.clicks + Bool2Int(clicked),
         conversions |-> b.conversions + Bool2Int(converted)]

\* BumpKey with "bucket = {}" written for the missing key: a key that is
\* new starts the dict anew
BumpKeyAnew(bucket, key, opened, clicked, converted) ==
    [k \in (IF key \in DOMAIN bucket THEN DOMAIN bucket ELSE {key}) |->
        IF k = key THEN Bumped(bucket, key, opened, clicked, converted)
        ELSE bucket[k]]

\* record_result on one dict: the entry of key, a zero entry when it was not
\* there, after one send with these flags; every other entry as it was
BumpKey(bucket, key, opened, clicked, converted) ==
    [k \in DOMAIN bucket \cup {key} |->
        IF k = key THEN Bumped(bucket, key, opened, clicked, converted)
        ELSE bucket[k]]

\* the body of record_result between its load and its save
RecordResult(s, niche, country, subject, opened, clicked, converted) ==
    OStats(BumpKey(s.niches, niche, opened, clicked, converted),
           BumpKey(s.countries, country, opened, clicked, converted),
           BumpKey(s.subjects, subject, opened, clicked, converted),
           s.total_sent + 1,
           s.total_opens + Bool2Int(opened),
           s.total_clicks + Bool2Int(clicked),
           s.total_conversions + Bool2Int(converted))

\* choose_subject: every base subject not yet tracked gets a zero entry
WithBaseSubjects(subjects) ==
    [k \in DOMAIN subjects \cup Range(base_subjects) |->
        IF k \in DOMAIN subjects THEN subjects[k] ELSE ZeroBucket]

\* _score_bucket without its "if sent == 0" return, dividing by
\* max(sent, 1)
_score_bucket_floored(bucket_entry) ==
    [num |-> bucket_entry.conversions * 10 + bucket_entry.clicks * 3
             + bucket_entry.opens,
     den |-> IF bucket_entry.sent >= 1 THEN bucket_entry.sent ELSE 1]

\* _score_bucket as the fraction num / den
_score_bucket(bucket_entry) ==
    IF bucket_entry.sent = 0 THEN [num |-> 0, den |-> 1]
    ELSE [num |-> bucket_entry.conversions * 10 + bucket_entry.clicks * 3
                  + bucket_entry.opens,
          den |-> bucket_entry.sent]

\* Beats with "<" written for ">": the loop keeps the lowest score
BeatsBackwards(a, ja, b, jb) ==
    LET sa == _score_bucket(a)
        sb == _score_bucket(b)
    IN  sa.num * sb.den * 100 * JitterSteps + ja * sa.den * sb.den
          < sb.num * sa.den * 100 * JitterSteps + jb * sa.den * sb.den

\* score(a) + noise ja  >  score(b) + noise jb
Beats(a, ja, b, jb) ==
    LET sa == _score_bucket(a)
        sb == _score_bucket(b)
    IN  sa.num * sb.den * 100 * JitterSteps + ja * sa.den * sb.den
          > sb.num * sa.den * 100 * JitterSteps + jb * sa.den * sb.den

\* the keys the exploitation loop can end on under the noise jit: those no
\* other key beats.  Among keys that tie exactly the loop keeps the first
\* in dict order, an order the store as modelled here does not keep, so
\* any of them may be the result.
BestOf(bucket, jit) ==
    { k \in DOMAIN bucket :
        \A m \in DOMAIN bucket : ~Beats(bucket[m], jit[m], bucket[k], jit[k]) }

\* outreach_load_branch with the os.path.exists test turned round: a file
\* that is there is written anew from DEFAULT_STATS
outreach_load_branch_recreating(kind) ==
    IF kind = "ok" THEN "create"
    ELSE IF kind = "absent" THEN "create"
    ELSE "default"

\* which branch load_stats takes on a file of this kind
outreach_load_branch(kind) ==
    IF kind = "absent" THEN "create"
    ELSE IF kind = "ok" THEN "parsed"
    ELSE "default"

(* ---- files ------------------------------------------------------------ *)
\* A stats file is absent, holds a store ("ok"), holds what an interrupted
\* or unfinished save left ("trunc": empty or cut short), or holds bytes
\* that are not JSON ("garbage").

NoTemplateStats == << >>

File(kind, data) == [kind |-> kind, data |-> data]

\* the characters json.dump writes an int with
Digits == << "0", "1", "2", "3", "4", "5", "6", "7", "8", "9" >>

RECURSIVE json_dump_int(_)
\* json.dump of a non-negative int: its decimal digits
json_dump_int(n) ==
    IF n < Len(Digits) THEN << Digits[n + 1] >>
    ELSE Append(json_dump_int(n \div Len(Digits)),
                Digits[(n % Len(Digits)) + 1])

RECURSIVE json_load_int(_)
\* json.load of a run of decimal digits: the int they spell
json_load_int(text) ==
    LET last == (CHOOSE i \in 1..Len(Digits) : Digits[i] = text[Len(text)]) - 1
    IN  IF Len(text) = 1 THEN last
        ELSE Len(Digits) * json_load_int(SubSeq(text, 1, Len(text) - 1)) + last

\* json_dump_counters with skipkeys-like thrift: a bundle whose counters
\* are all 0 is not written
json_dump_counters_sparse(d) ==
    [k \in { x \in DOMAIN d : \E f \in DOMAIN d[x] : d[x][f] # 0 } |->
        [f \in DOMAIN d[k] |-> json_dump_int(d[k][f])]]

\* json.dump of a dict of counter dicts: an object of objects, the keys
\* (all of them str) as they are, every int in digits
json_dump_counters(d) ==
    [k \in DOMAIN d |-> [f \in DOMAIN d[k] |-> json_dump_int(d[k][f])]]

\* json.load of such an object
json_load_counters(text) ==
    [k \in DOMAIN text |->
        [f \in DOMAIN text[k] |-> json_load_int(text[k][f])]]

\* json.dump of a store of the outreach brain
json_dump_stats(s) ==
    [niches            |-> json_dump_counters(s.niches),
     countries         |-> json_dump_counters(s.countries),
     subjects          |-> json_dump_counters(s.subjects),
     total_sent        |-> json_dump_int(s.total_sent),
     total_opens       |-> json_dump_int(s.total_opens),
     total_clicks      |-> json_dump_int(s.total_clicks),
     total_conversions |-> json_dump_int(s.total_conversions)]

\* json.load of such a text
json_load_stats(text) ==
    OStats(json_load_counters(text.niches),
           json_load_counters(text.countries),
           json_load_counters(text.subjects),
           json_load_int(text.total_sent),
           json_load_int(text.total_opens),
           json_load_int(text.total_clicks),
           json_load_int(text.total_conversions))

\* A file that holds a store is kept as what json.load reads from it.

\* data/template_stats.json after json.dump(stats, f) and the close
TemplateFileOf(stats) ==
    File("ok", json_load_counters(json_dump_counters(stats)))

\* data/brain_stats.json after json.dump(data, f) and the close
StatsFileOf(data) ==
    File("ok", json_load_stats(json_dump_stats(data)))

\* which branch _load_template_stats takes on a file of this kind
template_load_branch(kind) ==
    IF kind = "absent" THEN "create"
    ELSE IF kind = "ok" THEN "parsed"
    ELSE "raise"

\* AfterFailedDump with the save wrapped in "except Exception: pass"
AfterFailedDumpSwallowed(label) == label

\* where the call at label stands after an exception left its save: there
\* is no handler on the way, the exception reaches the caller
AfterFailedDump(label) == "raised"

(* ---- state ------------------------------------------------------------ *)

VARIABLES
    brain,      \* the module this run drives: "template" or "outreach"
    nprocs,     \* processes 1 .. nprocs run
    tfile,      \* data/template_stats.json
    sfile,      \* data/brain_stats.json
    defaults,   \* per process: the bucket dicts of DEFAULT_STATS
    pc,         \* per process: position in the code
    io,         \* per process: position inside a load or a save
    call,       \* per process: the call in progress and its arguments
    stats,      \* per process: the local variable stats
    loaded,     \* per process: what the last load returned
    aliased,    \* per process: stats' buckets are DEFAULT_STATS' buckets
    chosen,     \* per process: the candidate picked / returned
    branch,     \* per process: the branch the selection took
    obs,        \* per process: what the last load found the file to be
    err,        \* per process: the exception that ended the call
    failed,     \* per process: a write of this call failed
    pre,        \* per process: the file as it was when the call started
    calls,      \* calls started
    tampers,    \* outside deletions / corruptions so far
    SMTP_ACCOUNTS,     \* the accounts the environment configures
    leads_csv,         \* data/leads.csv
    do_not_contact,    \* data/do_not_contact.txt
    leads_log,         \* data/leads_log.csv
    SEND_INDEX,        \* per process: the module global SEND_INDEX
    skip_emails,       \* per process: the local skip_emails of run_engine
    leads_to_process,  \* per process: the leads the loop has still to visit
    rotation,          \* per process: what choose_smtp_account returned
    sends              \* the calls of send_email so far

vars == << brain, config, nprocs, tfile, sfile, defaults, pc, io, call, stats,
           loaded, aliased, chosen, branch, obs, err, failed, pre, calls,
           tampers, SMTP_ACCOUNTS, leads_csv, do_not_contact, leads_log,
           SEND_INDEX, skip_emails, leads_to_process, rotation, sends >>

\* the state of leads_engine_v6
engine_vars == << SMTP_ACCOUNTS, leads_csv, do_not_contact, leads_log,
                 SEND_INDEX, skip_emails, leads_to_process, rotation, sends >>

Running == 1..nprocs

NoCall == [op |-> "none"]
NoStats == << >>

\* the run is one process over the catalog and the pools of the source
FullInputs == nprocs = 1 /\ config = "shipped"

\* Two processes that run at once are there for the interleaving of their
\* file accesses, an empty catalog for the selections that find nothing to
\* select: their callers pass one industry text, one template id, one lead.
Industries ==
    IF nprocs = 1 THEN AllIndustries
    ELSE { <<"r", "e", "s", "t", "a", "u", "r", "a", "n", "t", " ",
             "d", "o", "w", "n", "t", "o", "w", "n">> }

\* ids a caller passes to record_template_result or as preferred template
CallerTemplateIds ==
    IF FullInputs THEN {"pro_modern", "legacy_template"} ELSE {"pro_modern"}

\* the leads a caller passes to record_result: niche, country, subject
CallerLeads ==
    IF FullInputs
    THEN { <<"restaurant", "Japan", base_subjects[1]>>,
           <<"plumber", "Peru", "Free website inside">>,
           <<"restaurant", "Peru", base_subjects[1]>> }
    ELSE { <<"restaurant", "Japan", base_subjects[1]>> }

\* the flags opened, clicked, converted of a record_result call: none set
\* (what leads_engine_v6 passes), each one alone, all three
OutcomeFlags ==
    IF FullInputs
    THEN { <<FALSE, FALSE, FALSE>>, <<TRUE, FALSE, FALSE>>,
           <<FALSE, TRUE, FALSE>>, <<FALSE, FALSE, TRUE>>,
           <<TRUE, TRUE, TRUE>> }
    ELSE { <<FALSE, FALSE, FALSE>>, <<TRUE, FALSE, TRUE>> }

(* ---- positions in the code -------------------------------------------- *)
\* pc: "idle", the label of the load or save the process is in, "returned"
\*     (the call returned normally) or "raised" (an exception reached the
\*     caller).  What a function does between two file accesses touches
\*     nothing shared and is part of the step that ends the first of them.
\* io: inside a load, "check" before os.path.exists; inside a save (also the
\*     save a load makes for an absent file), "open" before open(.., "w")
\*     and "dump" before json.dump; "run" everywhere else.

LoadLabels == {"ct_load1", "ct_load2", "rt_load",
               "rr_load", "cn_load", "cc_load", "cs_load"}
SaveLabels == {"ct_save", "rt_save", "rr_save", "cs_save"}

Enter(label) ==
    IF label \in LoadLabels THEN "check"
    ELSE IF label \in SaveLabels THEN "open"
    ELSE "run"

Goto(p, label) ==
    /\ pc' = [pc EXCEPT ![p] = label]
    /\ io' = [io EXCEPT ![p] = Enter(label)]

InCall(p) == pc[p] \notin {"idle", "returned", "raised"}

\* a call by process p starts at label; the locals of its last call are gone
Start(p, c, label) ==
    /\ p \in Running
    /\ ~InCall(p)
    /\ calls < MaxCalls
    \* the processes are alike: the one numbered p is the p-th to start
    /\ p <= calls + 1
    /\ calls' = calls + 1
    /\ call' = [call EXCEPT ![p] = c]
    /\ pre' = [pre EXCEPT ![p] = IF brain = "template" THEN tfile ELSE sfile]
    /\ loaded' = [loaded EXCEPT ![p] = NoStats]
    /\ aliased' = [aliased EXCEPT ![p] = FALSE]
    /\ obs' = [obs EXCEPT ![p] = "none"]
    /\ err' = [err EXCEPT ![p] = "none"]
    /\ failed' = [failed EXCEPT ![p] = FALSE]
    /\ branch' = [branch EXCEPT ![p] = "none"]
    /\ Goto(p, label)

(* ---- brain.py --------------------------------------------------------- *)

call_choose_template(p) ==
    /\ brain = "template"
    /\ \E industry \in Industries :
        Start(p, [op |-> "choose_template", industry |-> industry],
              "ct_load1")
    /\ stats' = [stats EXCEPT ![p] = NoStats]
    /\ chosen' = [chosen EXCEPT ![p] = NoneVal]
    /\ UNCHANGED engine_vars
    /\ UNCHANGED << brain, config, nprocs, tfile, sfile, defaults, tampers >>

call_record_template_result(p) ==
    /\ brain = "template"
    /\ \E tid \in CallerTemplateIds, success \in BOOLEAN :
        Start(p, [op |-> "record_template_result", template_id |-> tid,
                  success |-> success], "rt_load")
    /\ stats' = [stats EXCEPT ![p] = NoStats]
    /\ chosen' = [chosen EXCEPT ![p] = NoneVal]
    /\ UNCHANGED engine_vars
    /\ UNCHANGED << brain, config, nprocs, tfile, sfile, defaults, tampers >>

\* build_prompt_for_business up to its call of choose_template: with a
\* preferred id found in the catalog it returns at once, touching no file
call_build_prompt_for_business(p) ==
    /\ brain = "template"
    /\ \E industry \in Industries,
          pref \in CallerTemplateIds \cup {NoneVal} :
        /\ Start(p, [op |-> "build_prompt_for_business",
                     industry |-> industry,
                     preferred_template_id |-> pref],
                 IF PreferredTemplate(pref) # NoneVal
                 THEN "returned" ELSE "ct_load1")
        /\ chosen' = [chosen EXCEPT ![p] = PreferredTemplate(pref)]
    /\ stats' = [stats EXCEPT ![p] = NoStats]
    /\ UNCHANGED engine_vars
    /\ UNCHANGED << brain, config, nprocs, tfile, sfile, defaults, tampers >>

\* choose_template from the return of its first load to its second load
choose_template_pick(p, s) ==
    /\ stats' = [stats EXCEPT ![p] = s]
    /\ err' = [err EXCEPT ![p] = scoring_error(call[p].industry)]
    /\ IF scoring_error(call[p].industry) # "none"
       THEN /\ Goto(p, "raised")
            /\ UNCHANGED << chosen, branch >>
       ELSE /\ \E k \in 0..(RandSteps - 1) :
                chosen' = [chosen EXCEPT ![p] =
                             Roulette(s, call[p].industry, k)]
            /\ Goto(p, "ct_load2")
            /\ UNCHANGED branch

\* choose_template from the return of its second load to its save
choose_template_record_usage(p, s) ==
    /\ stats' = [stats EXCEPT ![p] = RecordUsage(s, chosen[p])]
    /\ Goto(p, "ct_save")
    /\ UNCHANGED << chosen, branch, err >>

\* record_template_result_mark with success clamped to uses: a success is
\* counted only for a template that has a use left to succeed
record_template_result_mark_clamped(p, s) ==
    LET b == BundleOf(s, call[p].template_id)
    IN  /\ stats' = [stats EXCEPT ![p] =
                       RecordSuccess(s, call[p].template_id,
                                     call[p].success /\ b.success < b.uses)]
        /\ Goto(p, "rt_save")
        /\ UNCHANGED << chosen, branch, err >>

\* record_template_result from the return of its load to its save
record_template_result_mark(p, s) ==
    /\ stats' = [stats EXCEPT ![p] =
                   RecordSuccess(s, call[p].template_id, call[p].success)]
    /\ Goto(p, "rt_save")
    /\ UNCHANGED << chosen, branch, err >>

\* the function returns after its save
ReturnAfterSave(p) ==
    /\ Goto(p, "returned")
    /\ UNCHANGED << stats, chosen, branch, err >>

\* process p goes on after the load (which returned s) or the save at pc[p]
ContinueTemplate(p, s) ==
    CASE pc[p] = "ct_load1" -> choose_template_pick(p, s)
      [] pc[p] = "ct_load2" -> choose_template_record_usage(p, s)
      [] pc[p] = "rt_load"  -> record_template_result_mark(p, s)
      [] pc[p] \in SaveLabels -> ReturnAfterSave(p)

\* _load_template_stats up to its return or to the save it makes
_load_template_stats(p) ==
    /\ brain = "template"
    /\ pc[p] \in LoadLabels
    /\ io[p] = "check"
    /\ obs' = [obs EXCEPT ![p] = tfile.kind]
    /\ LET taken == template_load_branch(tfile.kind) IN
        \/ /\ taken = "create"
           /\ stats' = [stats EXCEPT ![p] = ZeroTemplateStats]
           /\ io' = [io EXCEPT ![p] = "open"]
           /\ UNCHANGED << pc, err, loaded, chosen, branch >>
        \/ /\ taken = "parsed"
           /\ loaded' = [loaded EXCEPT ![p] = tfile.data]
           /\ ContinueTemplate(p, tfile.data)
        \/ /\ taken = "raise"
           /\ err' = [err EXCEPT ![p] = "JSONDecodeError"]
           /\ Goto(p, "raised")
           /\ UNCHANGED << stats, loaded, chosen, branch >>
    /\ UNCHANGED engine_vars
    /\ UNCHANGED << brain, config, nprocs, tfile, sfile, defaults, call, aliased,
                    failed, pre, calls, tampers >>

\* open(TEMPLATE_STATS_FILE, "w"): the file is created or cut to no bytes
_save_template_stats_open(p) ==
    /\ brain = "template"
    /\ InCall(p)
    /\ io[p] = "open"
    /\ tfile' = File("trunc", NoTemplateStats)
    /\ io' = [io EXCEPT ![p] = "dump"]
    /\ UNCHANGED engine_vars
    /\ UNCHANGED << brain, config, nprocs, sfile, defaults, pc, call, stats, loaded,
                    aliased, chosen, branch, obs, err, failed, pre, calls, tampers >>

\* json.dump and the close of the file: the store is in the file; a load
\* that was saving for an absent file returns that store
_save_template_stats_dump(p) ==
    /\ brain = "template"
    /\ InCall(p)
    /\ io[p] = "dump"
    /\ tfile' = TemplateFileOf(stats[p])
    /\ loaded' = [loaded EXCEPT ![p] =
                    IF pc[p] \in LoadLabels THEN stats[p] ELSE @]
    /\ ContinueTemplate(p, stats[p])
    /\ UNCHANGED engine_vars
    /\ UNCHANGED << brain, config, nprocs, sfile, defaults, call, aliased,
                    obs, failed, pre, calls, tampers >>

\* json.dump or the close raises (disk full, I/O error): the file keeps
\* whatever was written so far
_save_template_stats_fail(p) ==
    /\ brain = "template"
    /\ InCall(p)
    /\ io[p] = "dump"
    /\ failed' = [failed EXCEPT ![p] = TRUE]
    /\ \/ /\ AfterFailedDump(pc[p]) = "raised"
          /\ err' = [err EXCEPT ![p] = "OSError"]
          /\ Goto(p, "raised")
          /\ UNCHANGED << stats, chosen, branch >>
       \/ /\ AfterFailedDump(pc[p]) # "raised"
          /\ ContinueTemplate(p, stats[p])
    /\ UNCHANGED engine_vars
    /\ UNCHANGED << brain, config, nprocs, tfile, sfile, defaults, call, loaded,
                    aliased, obs, pre, calls, tampers >>

(* ---- brain_leads.py --------------------------------------------------- *)

call_record_result(p) ==
    /\ brain = "outreach"
    /\ \E lead \in CallerLeads, flags \in OutcomeFlags :
        Start(p, [op |-> "record_result", niche |-> lead[1],
                  country |-> lead[2], subject |-> lead[3],
                  opened |-> flags[1], clicked |-> flags[2],
                  converted |-> flags[3]], "rr_load")
    /\ stats' = [stats EXCEPT ![p] = NoStats]
    /\ chosen' = [chosen EXCEPT ![p] = NoneVal]
    /\ UNCHANGED engine_vars
    /\ UNCHANGED << brain, config, nprocs, tfile, sfile, defaults, tampers >>

call_choose_best_niche(p) ==
    /\ brain = "outreach"
    /\ Start(p, [op |-> "choose_best_niche"], "cn_load")
    /\ stats' = [stats EXCEPT ![p] = NoStats]
    /\ chosen' = [chosen EXCEPT ![p] = NoneVal]
    /\ UNCHANGED engine_vars
    /\ UNCHANGED << brain, config, nprocs, tfile, sfile, defaults, tampers >>

call_choose_best_country(p) ==
    /\ brain = "outreach"
    /\ Start(p, [op |-> "choose_best_country"], "cc_load")
    /\ stats' = [stats EXCEPT ![p] = NoStats]
    /\ chosen' = [chosen EXCEPT ![p] = NoneVal]
    /\ UNCHANGED engine_vars
    /\ UNCHANGED << brain, config, nprocs, tfile, sfile, defaults, tampers >>

call_choose_subject(p) ==
    /\ brain = "outreach"
    /\ Start(p, [op |-> "choose_subject"], "cs_load")
    /\ stats' = [stats EXCEPT ![p] = NoStats]
    /\ chosen' = [chosen EXCEPT ![p] = NoneVal]
    /\ UNCHANGED engine_vars
    /\ UNCHANGED << brain, config, nprocs, tfile, sfile, defaults, tampers >>

\* the three bucket dicts of a store
BucketsOf(s) ==
    [niches |-> s.niches, countries |-> s.countries, subjects |-> s.subjects]

\* stats is now s; when its bucket dicts are those of DEFAULT_STATS what
\* was written into them is in DEFAULT_STATS too
SetStats(p, s, al) ==
    /\ stats' = [stats EXCEPT ![p] = s]
    /\ aliased' = [aliased EXCEPT ![p] = al]
    /\ defaults' = IF al THEN [defaults EXCEPT ![p] = BucketsOf(s)]
                   ELSE defaults

\* record_result from the return of its load to its save
record_result_mark(p, s, al) ==
    /\ SetStats(p, RecordResult(s, call[p].niche, call[p].country,
                                call[p].subject, call[p].opened,
                                call[p].clicked, call[p].converted), al)
    /\ Goto(p, "rr_save")
    /\ UNCHANGED << chosen, branch, err >>

\* the selection with the test for an empty bucket left out of the
\* exploration condition: the loop runs over no key and the fallback
\* "best or random.choice(pool)" answers
EpsilonGreedyUntested(p, bucket, pool) ==
    \E explore \in BOOLEAN :
        /\ branch' = [branch EXCEPT ![p] =
                         IF explore THEN "explore" ELSE "exploit"]
        /\ IF explore \/ DOMAIN bucket = {}
           THEN IF Len(pool) = 0
                THEN /\ err' = [err EXCEPT ![p] = "IndexError"]
                     /\ Goto(p, "raised")
                     /\ UNCHANGED chosen
                ELSE /\ \E i \in 1..Len(pool) :
                          chosen' = [chosen EXCEPT ![p] = pool[i]]
                     /\ Goto(p, "returned")
                     /\ UNCHANGED err
           ELSE /\ \E jit \in [DOMAIN bucket -> 0..(JitterSteps - 1)] :
                     \E k \in BestOf(bucket, jit) :
                         chosen' = [chosen EXCEPT ![p] = k]
                /\ Goto(p, "returned")
                /\ UNCHANGED err

\* the selection both choose_best_niche and choose_best_country make from
\* the bucket of their dimension and their global pool, up to the return;
\* random.choice of an empty pool raises IndexError
EpsilonGreedy(p, bucket, pool) ==
    \E explore \in BOOLEAN :
        IF explore \/ DOMAIN bucket = {}
        THEN /\ branch' = [branch EXCEPT ![p] = "explore"]
             /\ IF Len(pool) = 0
                THEN /\ err' = [err EXCEPT ![p] = "IndexError"]
                     /\ Goto(p, "raised")
                     /\ UNCHANGED chosen
                ELSE /\ \E i \in 1..Len(pool) :
                          chosen' = [chosen EXCEPT ![p] = pool[i]]
                     /\ Goto(p, "returned")
                     /\ UNCHANGED err
        ELSE /\ branch' = [branch EXCEPT ![p] = "exploit"]
             /\ \E jit \in [DOMAIN bucket -> 0..(JitterSteps - 1)] :
                  \E k \in BestOf(bucket, jit) :
                      chosen' = [chosen EXCEPT ![p] = k]
             /\ Goto(p, "returned")
             /\ UNCHANGED err

\* choose_best_niche from the return of its load to its return
choose_best_niche(p, s, al) ==
    /\ EpsilonGreedy(p, s.niches, GLOBAL_NICHES)
    /\ SetStats(p, s, al)

\* choose_best_country from the return of its load to its return
choose_best_country(p, s, al) ==
    /\ EpsilonGreedy(p, s.countries, GLOBAL_COUNTRIES)
    /\ SetStats(p, s, al)

\* choose_subject from the return of its load to its save, or to its
\* return when no subject is tracked
choose_subject_fill(p, s, al) ==
    IF DOMAIN s.subjects = {}
    THEN /\ \E i \in 1..Len(base_subjects) :
              chosen' = [chosen EXCEPT ![p] = base_subjects[i]]
         /\ SetStats(p, s, al)
         /\ Goto(p, "returned")
         /\ UNCHANGED << err, branch >>
    ELSE /\ SetStats(p, [s EXCEPT !.subjects = WithBaseSubjects(@)], al)
         /\ Goto(p, "cs_save")
         /\ UNCHANGED << chosen, branch, err >>

\* choose_subject after its save: every weight (opens + 1) / (sent + 1) is
\* positive and r runs over [0, 1), so each tracked subject has its share
\* of the wheel; which share comes first is the dict's order, which the
\* store as modelled here does not keep
choose_subject_pick(p) ==
    /\ \E subj \in DOMAIN stats[p].subjects :
          chosen' = [chosen EXCEPT ![p] = subj]
    /\ Goto(p, "returned")
    /\ UNCHANGED << stats, aliased, defaults, err, branch >>

ReturnAfterSaveStats(p) ==
    /\ Goto(p, "returned")
    /\ UNCHANGED << stats, aliased, defaults, chosen, branch, err >>

\* process p goes on after the load (which returned s, sharing the dicts of
\* DEFAULT_STATS when al) or the save at pc[p]
ContinueOutreach(p, s, al) ==
    CASE pc[p] = "rr_load" -> record_result_mark(p, s, al)
      [] pc[p] = "cn_load" -> choose_best_niche(p, s, al)
      [] pc[p] = "cc_load" -> choose_best_country(p, s, al)
      [] pc[p] = "cs_load" -> choose_subject_fill(p, s, al)
      [] pc[p] = "cs_save" -> choose_subject_pick(p)
      [] pc[p] = "rr_save" -> ReturnAfterSaveStats(p)

\* load_stats up to its return or to the save it makes
load_stats(p) ==
    /\ brain = "outreach"
    /\ pc[p] \in LoadLabels
    /\ io[p] = "check"
    /\ obs' = [obs EXCEPT ![p] = sfile.kind]
    /\ LET taken == outreach_load_branch(sfile.kind) IN
        \/ /\ taken = "create"
           \* save_stats(DEFAULT_STATS)
           /\ stats' = [stats EXCEPT ![p] = DefaultStatsOf(defaults[p])]
           /\ io' = [io EXCEPT ![p] = "open"]
           /\ UNCHANGED << pc, loaded, chosen, branch, aliased, defaults, err >>
        \/ /\ taken = "parsed"
           /\ loaded' = [loaded EXCEPT ![p] = sfile.data]
           /\ ContinueOutreach(p, sfile.data, FALSE)
        \/ /\ taken = "default"
           \* data = DEFAULT_STATS.copy()
           /\ loaded' = [loaded EXCEPT ![p] = DefaultStatsOf(defaults[p])]
           /\ ContinueOutreach(p, DefaultStatsOf(defaults[p]), TRUE)
    /\ UNCHANGED engine_vars
    /\ UNCHANGED << brain, config, nprocs, tfile, sfile, call, failed, pre,
                    calls, tampers >>

\* open(STATS_FILE, "w"): the file is created or cut to no bytes
save_stats_open(p) ==
    /\ brain = "outreach"
    /\ InCall(p)
    /\ io[p] = "open"
    /\ sfile' = File("trunc", NoTemplateStats)
    /\ io' = [io EXCEPT ![p] = "dump"]
    /\ UNCHANGED engine_vars
    /\ UNCHANGED << brain, config, nprocs, tfile, defaults, pc, call, stats, loaded,
                    aliased, chosen, branch, obs, err, failed, pre, calls, tampers >>

\* json.dump and the close of the file: the store is in the file; a load
\* that was saving DEFAULT_STATS for an absent file returns its shallow copy
save_stats_dump(p) ==
    /\ brain = "outreach"
    /\ InCall(p)
    /\ io[p] = "dump"
    /\ sfile' = StatsFileOf(stats[p])
    /\ loaded' = [loaded EXCEPT ![p] =
                    IF pc[p] \in LoadLabels THEN stats[p] ELSE @]
    /\ ContinueOutreach(p, stats[p],
                        IF pc[p] \in LoadLabels THEN TRUE ELSE aliased[p])
    /\ UNCHANGED engine_vars
    /\ UNCHANGED << brain, config, nprocs, tfile, call, obs, failed, pre,
                    calls, tampers >>

\* json.dump or the close raises: the file keeps whatever was written
save_stats_fail(p) ==
    /\ brain = "outreach"
    /\ InCall(p)
    /\ io[p] = "dump"
    /\ failed' = [failed EXCEPT ![p] = TRUE]
    /\ \/ /\ AfterFailedDump(pc[p]) = "raised"
          /\ err' = [err EXCEPT ![p] = "OSError"]
          /\ Goto(p, "raised")
          /\ UNCHANGED << stats, chosen, branch, aliased, defaults >>
       \/ /\ AfterFailedDump(pc[p]) # "raised"
          /\ ContinueOutreach(p, stats[p],
                              IF pc[p] \in LoadLabels THEN TRUE
                              ELSE aliased[p])
    /\ UNCHANGED engine_vars
    /\ UNCHANGED << brain, config, nprocs, tfile, sfile, call, loaded, obs, pre,
                    calls, tampers >>

(* ---- leads_engine_v6.py ---------------------------------------------- *)
\* Every text the engine reads or writes is a sequence of characters, so
\* that str.strip and str.lower act on it.  What run_engine does to
\* brain_stats.json through brain_leads, and to the sites it generates, is
\* not part of this family: its state is the lead files and the rotation.

\* a text file: kind "absent" or "ok", and its lines (rows of fields for a
\* CSV file)
TextFile(kind, lines) == [kind |-> kind, lines |-> lines]

NoFile == TextFile("absent", << >>)

\* the header row run_engine writes into a new leads log
LOG_HEADER ==
    << <<"t", "i", "m", "e", "s", "t", "a", "m", "p">>,
       <<"b", "u", "s", "i", "n", "e", "s", "s">>,
       <<"e", "m", "a", "i", "l">>,
       <<"s", "l", "u", "g">>,
       <<"p", "r", "e", "v", "i", "e", "w">>,
       <<"n", "i", "c", "h", "e">>,
       <<"c", "o", "u", "n", "t", "r", "y">>,
       <<"e", "m", "a", "i", "l", "_", "s", "t", "a", "t", "u", "s">>,
       <<"s", "e", "n", "d", "e", "r">>,
       <<"s", "o", "u", "r", "c", "e">> >>

EmailColumn == <<"e", "m", "a", "i", "l">>

\* str.strip(): the text without its leading and trailing blanks
strip(text) ==
    LET inked == { i \in 1..Len(text) : text[i] # " " }
    IN  IF inked = {} THEN << >>
        ELSE SubSeq(text,
                    CHOOSE i \in inked : \A j \in inked : i <= j,
                    CHOOSE i \in inked : \A j \in inked : i >= j)

\* load_do_not_contact: the lines of the file, stripped and lower-cased
load_do_not_contact(file) ==
    IF file.kind = "absent" THEN {}
    ELSE { lower(strip(file.lines[i])) : i \in 1..Len(file.lines) } \ { << >> }

\* header.index("email"), 1 on ValueError; counted from 0 as in the source
email_idx(header) ==
    IF \E i \in 1..Len(header) : header[i] = EmailColumn
    THEN (CHOOSE i \in 1..Len(header) :
              /\ header[i] = EmailColumn
              /\ \A j \in 1..(i - 1) : header[j] # EmailColumn) - 1
    ELSE 1

\* load_already_sent_emails: the first row of the log is its header, the
\* field at email_idx of every later row that is long enough is an address
load_already_sent_emails(file) ==
    IF file.kind = "absent" THEN {}
    ELSE IF Len(file.lines) = 0 THEN {}
    ELSE IF Len(file.lines[1]) = 0 THEN {}
    ELSE LET idx == email_idx(file.lines[1])
         IN  { lower(strip(file.lines[r][idx + 1])) :
                 r \in { q \in 2..Len(file.lines) :
                           Len(file.lines[q]) > idx } } \ { << >> }

RECURSIVE csv_leads(_, _, _, _, _)
\* the loop of load_leads_from_csv from row i on, leads being those
\* collected so far
csv_leads(rows, i, max_leads, skip, leads) ==
    IF i > Len(rows) THEN leads
    ELSE LET business == strip(rows[i].business_name)
             email    == strip(rows[i].email)
         IN  IF business = << >> \/ email = << >>
             THEN csv_leads(rows, i + 1, max_leads, skip, leads)
             ELSE IF lower(email) \in skip
             THEN csv_leads(rows, i + 1, max_leads, skip, leads)
             ELSE LET more == Append(leads, [business |-> business,
                                             email |-> email,
                                             source |-> <<"c", "s", "v">>])
                  IN  IF max_leads # 0 /\ Len(more) >= max_leads THEN more
                      ELSE csv_leads(rows, i + 1, max_leads, skip, more)

\* load_leads_from_csv(max_leads, skip_emails)
load_leads_from_csv(file, max_leads, skip) ==
    IF file.kind = "absent" THEN << >>
    ELSE csv_leads(file.lines, 1, max_leads, skip, << >>)

\* the placeholder addresses generate_lead builds from a country and a niche
GeneratedEmails ==
    { <<"i", "n", "f", "o", "@", "g", "1">>,
      <<"i", "n", "f", "o", "@", "g", "2">> }

\* the addresses of its fallback, info-demo-NNNN@example.com
DemoEmails == { <<"d", "e", "m", "o", "@", "e">> }

\* what generate_lead(skip_emails) can return: a placeholder that is not in
\* the skip list, or, when ten draws can all hit the skip list, a demo
\* address that no skip list was asked about
generate_lead(skip) ==
    { [business |-> <<"G", "e", "n">>, email |-> e, source |-> <<"b", "r", "a", "i", "n">>] :
        e \in { g \in GeneratedEmails : lower(g) \notin skip } }
    \cup (IF \E g \in GeneratedEmails : lower(g) \in skip
          THEN { [business |-> <<"G", "e", "n">>, email |-> e, source |-> <<"b", "r", "a", "i", "n">>] :
                   e \in DemoEmails }
          ELSE {})

\* the row run_engine appends to the leads log
LogRow(lead, email_status, sender_used) ==
    << <<"t", "s">>, lead.business, lead.email, <<"s", "l", "u", "g">>, <<"u", "r", "l">>,
       <<"n", "i", "c", "h", "e">>, <<"c", "o", "u", "n", "t", "r", "y">>,
       IF email_status THEN <<"s", "e", "n", "t">> ELSE <<"f", "a", "i", "l", "e", "d">>,
       sender_used, lead.source >>

Unknown == <<"u", "n", "k", "n", "o", "w", "n">>

\* the account configurations of the environment: none, one, two
AccountConfigs ==
    { << >>,
      << [sender |-> <<"s", "1">>] >>,
      << [sender |-> <<"s", "1">>], [sender |-> <<"s", "2">>] >> }

\* data/leads.csv: two rows whose addresses differ in case only, a row
\* with no address, a third address
CsvFile ==
    TextFile("ok",
      << [business_name |-> <<"A", "c", "m", "e">>, email |-> <<"A", "@", "x">>],
         [business_name |-> <<"A", "c", "m", "e", "2">>, email |-> <<" ", "a", "@", "x">>],
         [business_name |-> <<"N", "o", "m", "a", "i", "l">>, email |-> <<" ">>],
         [business_name |-> <<"B", "o", "l", "t">>, email |-> <<"b", "@", "x">>] >>)

\* data/do_not_contact.txt: one address, in capitals and with blanks
DncFile == TextFile("ok", << <<" ", "B", "@", "X", " ">> >>)

\* a leads log an older version of the engine left: its header names no
\* "email" column, the address is the second field
OlderLog ==
    TextFile("ok", << << <<"d", "a", "t", "e">>, <<"a", "d", "d", "r", "e", "s", "s">>, <<"r", "e", "s", "u", "l", "t">> >>,
                      << <<"t", "s">>, <<"A", "@", "x">>, <<"s", "e", "n", "t">> >> >>)

\* the batch sizes run_engine is called with: that of __main__ and one more
BatchSizes == {1, 2}

call_run_engine(p) ==
    /\ brain = "engine"
    /\ \E batch_size \in BatchSizes :
        Start(p, [op |-> "run_engine", batch_size |-> batch_size], "re_init")
    /\ stats' = [stats EXCEPT ![p] = NoStats]
    /\ chosen' = [chosen EXCEPT ![p] = NoneVal]
    /\ skip_emails' = [skip_emails EXCEPT ![p] = {}]
    /\ leads_to_process' = [leads_to_process EXCEPT ![p] = << >>]
    /\ UNCHANGED << SMTP_ACCOUNTS, leads_csv, do_not_contact, leads_log,
                    SEND_INDEX, rotation, sends >>
    /\ UNCHANGED << brain, config, nprocs, tfile, sfile, defaults, tampers >>

\* run_engine from its start to the head of its loop: the log is created
\* with its header when it is not there (a write that fails leaves it with
\* no row and ends the call), the skip list is read from the two files,
\* the leads are those of the CSV or, when it gives none, generated ones
run_engine_init(p) ==
    /\ brain = "engine"
    /\ pc[p] = "re_init"
    /\ \/ /\ leads_log.kind = "absent"
          /\ leads_log' = TextFile("ok", << >>)
          /\ err' = [err EXCEPT ![p] = "OSError"]
          /\ failed' = [failed EXCEPT ![p] = TRUE]
          /\ Goto(p, "raised")
          /\ UNCHANGED << skip_emails, leads_to_process >>
       \/ LET log == IF leads_log.kind = "absent"
                     THEN TextFile("ok", << LOG_HEADER >>)
                     ELSE leads_log
              dnc == load_do_not_contact(do_not_contact)
              already_sent == load_already_sent_emails(log)
              skip == dnc \cup already_sent
              from_csv == load_leads_from_csv(leads_csv, call[p].batch_size,
                                              skip)
          IN  /\ leads_log' = log
              /\ skip_emails' = [skip_emails EXCEPT ![p] = skip]
              /\ IF Len(from_csv) > 0
                 THEN leads_to_process' =
                        [leads_to_process EXCEPT ![p] = from_csv]
                 ELSE \E generated \in [1..call[p].batch_size
                                          -> generate_lead(skip)] :
                        leads_to_process' =
                          [leads_to_process EXCEPT ![p] = generated]
              /\ Goto(p, "re_loop")
              /\ UNCHANGED << err, failed >>
    /\ UNCHANGED << SMTP_ACCOUNTS, leads_csv, do_not_contact, SEND_INDEX,
                    rotation, sends >>
    /\ UNCHANGED << brain, config, nprocs, tfile, sfile, defaults, call, stats,
                    loaded, aliased, chosen, branch, obs, pre, calls,
                    tampers >>

\* choose_smtp_account with the index left where it was: every call
\* returns the account SEND_INDEX names at the start
choose_smtp_account_stuck(accounts, index) ==
    IF Len(accounts) = 0
    THEN [raised |-> TRUE, account |-> 0, index |-> index]
    ELSE [raised |-> FALSE, account |-> index % Len(accounts),
          index |-> index]

\* choose_smtp_account on SMTP_ACCOUNTS = accounts and SEND_INDEX = index:
\* whether it raises, the position (from 0) of the account it returns, and
\* SEND_INDEX after it
choose_smtp_account(accounts, index) ==
    IF Len(accounts) = 0
    THEN [raised |-> TRUE, account |-> 0, index |-> index]
    ELSE [raised |-> FALSE, account |-> index % Len(accounts),
          index |-> index + 1]

\* a call of choose_smtp_account from outside send_email
call_choose_smtp_account(p) ==
    /\ brain = "engine"
    /\ LET r == choose_smtp_account(SMTP_ACCOUNTS, SEND_INDEX[p])
       IN  /\ Start(p, [op |-> "choose_smtp_account"],
                    IF r.raised THEN "raised" ELSE "returned")
           /\ SEND_INDEX' = [SEND_INDEX EXCEPT ![p] = r.index]
           /\ rotation' = [rotation EXCEPT ![p] =
                             IF r.raised THEN @ ELSE Append(@, r.account)]
           /\ chosen' = [chosen EXCEPT ![p] =
                           IF r.raised THEN NoneVal ELSE r.account]
    /\ stats' = [stats EXCEPT ![p] = NoStats]
    /\ UNCHANGED << SMTP_ACCOUNTS, leads_csv, do_not_contact, leads_log,
                    skip_emails, leads_to_process, sends >>
    /\ UNCHANGED << brain, config, nprocs, tfile, sfile, defaults, tampers >>

\* the addresses the log holds: the third field of the rows the engine
\* appended, the second field of the rows under the header of an older log
AddressesInLog ==
    IF leads_log.kind = "absent" THEN {}
    ELSE { lower(strip(leads_log.lines[r][3])) :
             r \in { q \in 1..Len(leads_log.lines) :
                       /\ Len(leads_log.lines[q]) = Len(LOG_HEADER)
                       /\ leads_log.lines[q] # LOG_HEADER } }
         \cup { lower(strip(leads_log.lines[r][2])) :
                  r \in { q \in 2..Len(leads_log.lines) :
                            /\ Len(leads_log.lines[q]) # Len(LOG_HEADER)
                            /\ Len(leads_log.lines[q]) >= 2 } }

\* the loop body of run_engine for the next lead, and the return after the
\* last: a lead in the skip list is passed over; the steps before the send
\* may raise; send_email takes the next account, if there is one, and
\* reports whether the mail went out; the row is appended to the log (or
\* the write raises); the address joins the skip list; record_result may
\* raise
run_engine_lead(p) ==
    /\ brain = "engine"
    /\ pc[p] = "re_loop"
    /\ Len(leads_to_process[p]) > 0
    /\ LET lead == Head(leads_to_process[p])
           rest == Tail(leads_to_process[p])
           email_lower == lower(lead.email)
           after == IF Len(rest) = 0 THEN "returned" ELSE "re_loop"
           r == IF Len(SMTP_ACCOUNTS) = 0
                THEN [raised |-> TRUE, account |-> 0, index |-> SEND_INDEX[p]]
                ELSE choose_smtp_account(SMTP_ACCOUNTS, SEND_INDEX[p])
           sender_used ==
               IF Len(SMTP_ACCOUNTS) > 0
               THEN SMTP_ACCOUNTS[((r.index - 1) % Len(SMTP_ACCOUNTS)) + 1].sender
               ELSE Unknown
           sent_to == [to |-> lead.email, p |-> p, run |-> calls,
                       account |-> IF r.raised THEN -1 ELSE r.account,
                       sender_used |-> sender_used,
                       in_log |-> email_lower \in AddressesInLog,
                       in_dnc |-> email_lower
                                    \in load_do_not_contact(do_not_contact)]
       IN  \/ /\ email_lower \in skip_emails[p]
              /\ leads_to_process' = [leads_to_process EXCEPT ![p] = rest]
              /\ Goto(p, after)
              /\ UNCHANGED << leads_log, SEND_INDEX, rotation, sends,
                              skip_emails, err >>
           \/ /\ email_lower \notin skip_emails[p]
              \* generate_commerce_site .. load_template raise
              /\ err' = [err EXCEPT ![p] = "Exception"]
              /\ Goto(p, "raised")
              /\ UNCHANGED << leads_log, SEND_INDEX, rotation, sends,
                              skip_emails, leads_to_process >>
           \/ /\ email_lower \notin skip_emails[p]
              /\ SEND_INDEX' = [SEND_INDEX EXCEPT ![p] = r.index]
              /\ rotation' = [rotation EXCEPT ![p] =
                                IF r.raised THEN @ ELSE Append(@, r.account)]
              /\ sends' = Append(sends, sent_to)
              /\ \E email_status \in (IF r.raised THEN {FALSE} ELSE BOOLEAN) :
                    \/ /\ leads_log' =
                            [leads_log EXCEPT !.lines =
                               Append(@, LogRow(lead, email_status,
                                                sender_used))]
                       /\ skip_emails' = [skip_emails EXCEPT ![p] =
                                            @ \cup {email_lower}]
                       /\ \/ /\ leads_to_process' =
                                  [leads_to_process EXCEPT ![p] = rest]
                             /\ Goto(p, after)
                             /\ UNCHANGED err
                          \/ /\ err' = [err EXCEPT ![p] = "Exception"]
                             /\ Goto(p, "raised")
                             /\ UNCHANGED leads_to_process
                    \/ /\ err' = [err EXCEPT ![p] = "OSError"]
                       /\ Goto(p, "raised")
                       /\ UNCHANGED << leads_log, skip_emails,
                                       leads_to_process >>
    /\ UNCHANGED << SMTP_ACCOUNTS, leads_csv, do_not_contact >>
    /\ UNCHANGED << brain, config, nprocs, tfile, sfile, defaults, call, stats,
                    loaded, aliased, chosen, branch, obs, failed, pre, calls,
                    tampers >>

(* ---- the world outside ------------------------------------------------ *)

Quiescent == \A p \in Procs : ~InCall(p)

\* the calls that ended are over: nothing of them is left in the processes
Forget ==
    /\ pc' = [p \in Procs |-> "idle"]
    /\ io' = [p \in Procs |-> "run"]
    /\ call' = [p \in Procs |-> NoCall]
    /\ stats' = [p \in Procs |-> NoStats]
    /\ loaded' = [p \in Procs |-> NoStats]
    /\ aliased' = [p \in Procs |-> FALSE]
    /\ chosen' = [p \in Procs |-> NoneVal]
    /\ branch' = [p \in Procs |-> "none"]
    /\ obs' = [p \in Procs |-> "none"]
    /\ err' = [p \in Procs |-> "none"]
    /\ failed' = [p \in Procs |-> FALSE]
    /\ pre' = [p \in Procs |-> File("absent", NoTemplateStats)]

\* the stats file of the brain that runs
TheFile == IF brain = "template" THEN tfile ELSE sfile

PutFile(f) ==
    IF brain = "template"
    THEN tfile' = f /\ UNCHANGED sfile
    ELSE sfile' = f /\ UNCHANGED tfile

\* someone removes the stats file between two calls
DeleteStatsFile ==
    /\ brain \in {"template", "outreach"}
    /\ Quiescent
    /\ tampers < MaxTamper
    /\ tampers' = tampers + 1
    /\ TheFile.kind # "absent"
    /\ PutFile(File("absent", NoTemplateStats))
    /\ Forget
    /\ UNCHANGED engine_vars
    /\ UNCHANGED << brain, config, nprocs, defaults, calls >>

\* the stats file is overwritten with bytes that are not JSON
CorruptStatsFile ==
    /\ brain \in {"template", "outreach"}
    /\ Quiescent
    /\ tampers < MaxTamper
    /\ tampers' = tampers + 1
    /\ TheFile.kind # "garbage"
    /\ PutFile(File("garbage", NoTemplateStats))
    /\ Forget
    /\ UNCHANGED engine_vars
    /\ UNCHANGED << brain, config, nprocs, defaults, calls >>

\* a store written into brain_stats.json from outside the program: niches
\* that tie, one that lags, and one whose opens were counted with no send
EditedStats ==
    OStats( ("restaurant" :> [sent |-> 2, opens |-> 1, clicks |-> 0,
                              conversions |-> 0])
            @@ ("plumber" :> [sent |-> 2, opens |-> 1, clicks |-> 0,
                              conversions |-> 0])
            @@ ("dentist" :> [sent |-> 1, opens |-> 0, clicks |-> 0,
                              conversions |-> 0])
            @@ ("lawyer" :> [sent |-> 0, opens |-> 1, clicks |-> 0,
                             conversions |-> 0]),
            ("Japan" :> [sent |-> 3, opens |-> 2, clicks |-> 0,
                         conversions |-> 0])
            @@ ("Peru" :> [sent |-> 2, opens |-> 1, clicks |-> 0,
                           conversions |-> 0]),
            (base_subjects[1] :> [sent |-> 5, opens |-> 3, clicks |-> 0,
                                  conversions |-> 0]),
            5, 3, 0, 0 )

\* brain_stats.json is replaced between two calls by JSON the program did
\* not write; load_stats takes whatever parses
EditStatsFile ==
    /\ brain = "outreach"
    /\ Quiescent
    /\ tampers < MaxTamper
    /\ tampers' = tampers + 1
    /\ sfile # StatsFileOf(EditedStats)
    /\ sfile' = StatsFileOf(EditedStats)
    /\ Forget
    /\ UNCHANGED engine_vars
    /\ UNCHANGED << brain, config, nprocs, tfile, defaults, calls >>

(* ---- specifications --------------------------------------------------- *)

InitCommon ==
    /\ brain \in {"template", "outreach", "engine"}
    /\ config \in {"shipped", "empty"}
    /\ brain = "engine" => config = "shipped"
    /\ SMTP_ACCOUNTS \in (IF brain # "engine" THEN { << >> }
                          ELSE IF nprocs = 1 THEN AccountConfigs
                          ELSE { a \in AccountConfigs : Len(a) = 2 })
    /\ leads_csv \in (IF brain # "engine" THEN {NoFile}
                      ELSE IF nprocs = 1 THEN {NoFile, CsvFile}
                      ELSE {CsvFile})
    /\ do_not_contact \in (IF brain # "engine" THEN {NoFile}
                           ELSE IF nprocs = 1 THEN {NoFile, DncFile}
                           ELSE {DncFile})
    /\ leads_log \in (IF brain = "engine" /\ nprocs = 1
                      THEN {NoFile, OlderLog} ELSE {NoFile})
    /\ SEND_INDEX = [p \in Procs |-> 0]
    /\ skip_emails = [p \in Procs |-> {}]
    /\ leads_to_process = [p \in Procs |-> << >>]
    /\ rotation = [p \in Procs |-> << >>]
    /\ sends = << >>
    /\ tfile = File("absent", NoTemplateStats)
    /\ sfile = File("absent", NoTemplateStats)
    /\ defaults = [p \in Procs |-> BucketsOf(DefaultStatsOf(
                       [niches |-> NoBuckets, countries |-> NoBuckets,
                        subjects |-> NoBuckets]))]
    /\ pc = [p \in Procs |-> "idle"]
    /\ io = [p \in Procs |-> "run"]
    /\ call = [p \in Procs |-> NoCall]
    /\ stats = [p \in Procs |-> NoStats]
    /\ loaded = [p \in Procs |-> NoStats]
    /\ aliased = [p \in Procs |-> FALSE]
    /\ chosen = [p \in Procs |-> NoneVal]
    /\ branch = [p \in Procs |-> "none"]
    /\ obs = [p \in Procs |-> "none"]
    /\ err = [p \in Procs |-> "none"]
    /\ failed = [p \in Procs |-> FALSE]
    /\ pre = [p \in Procs |-> File("absent", NoTemplateStats)]
    /\ calls = 0
    /\ tampers = 0

\* two worker processes share the files
Init ==
    /\ nprocs = 2
    /\ InitCommon

\* one process
InitSeq ==
    /\ nprocs = 1
    /\ InitCommon

Next ==
    \/ \E p \in Procs : call_choose_template(p)
    \/ \E p \in Procs : call_record_template_result(p)
    \/ \E p \in Procs : call_build_prompt_for_business(p)
    \/ \E p \in Procs : _load_template_stats(p)
    \/ \E p \in Procs : _save_template_stats_open(p)
    \/ \E p \in Procs : _save_template_stats_dump(p)
    \/ \E p \in Procs : _save_template_stats_fail(p)
    \/ \E p \in Procs : call_record_result(p)
    \/ \E p \in Procs : call_choose_best_niche(p)
    \/ \E p \in Procs : call_choose_best_country(p)
    \/ \E p \in Procs : call_choose_subject(p)
    \/ \E p \in Procs : load_stats(p)
    \/ \E p \in Procs : save_stats_open(p)
    \/ \E p \in Procs : save_stats_dump(p)
    \/ \E p \in Procs : save_stats_fail(p)
    \/ \E p \in Procs : call_run_engine(p)
    \/ \E p \in Procs : run_engine_init(p)
    \/ \E p \in Procs : run_engine_lead(p)
    \/ \E p \in Procs : call_choose_smtp_account(p)
    \/ DeleteStatsFile
    \/ CorruptStatsFile
    \/ EditStatsFile

Spec == Init /\ [][Next]_vars

SpecSeq == InitSeq /\ [][Next]_vars

(* ---- properties ------------------------------------------------------- *)

RECURSIVE SumUses(_, _)
\* the sum of uses over the template ids in S
SumUses(st, S) ==
    IF S = {} THEN 0
    ELSE LET t == CHOOSE x \in S : TRUE
         IN  st[t].uses + SumUses(st, S \ {t})

\* the call of p went through choose_template
ViaChooseTemplate(p) ==
    \/ call[p].op = "choose_template"
    \/ /\ call[p].op = "build_prompt_for_business"
       /\ PreferredTemplate(call[p].preferred_template_id) = NoneVal

\* the template counters before the call of p: those of the file, all zero
\* when there was no file
OldTemplateStats(p) ==
    IF pre[p].kind = "ok" THEN pre[p].data ELSE NoTemplateStats

\* every counter of the store s is zero
ZeroStore(s) ==
    IF brain = "template"
    THEN s = ZeroTemplateStats
    ELSE /\ s.total_sent = 0 /\ s.total_opens = 0
         /\ s.total_clicks = 0 /\ s.total_conversions = 0
         /\ \A d \in {"niches", "countries", "subjects"} :
              \A k \in DOMAIN s[d] : s[d][k] = ZeroBucket

\* the last load of p has returned and p has not touched the file since
JustLoaded(p) ==
    /\ loaded[p] # NoStats \/ obs[p] \in {"garbage", "trunc"}
    /\ \/ pc[p] \in SaveLabels /\ io[p] = "open"
       \/ pc[p] = "ct_load2" /\ io[p] = "check"
       \/ pc[p] = "returned" /\ call[p].op \in
             {"choose_best_niche", "choose_best_country", "choose_subject"}
    /\ ~failed[p]

\* C1: two concurrent choose_template calls by two processes on a store
\* that starts empty leave the sum of uses in the file at 2 once both have
\* returned.
C1_NoLostUpdate ==
    ( /\ brain = "template"
      /\ calls = 2 /\ tampers = 0
      /\ \A p \in Procs :
            pc[p] = "returned" /\ call[p].op = "choose_template" )
    => /\ tfile.kind = "ok"
       /\ SumUses(tfile.data, DOMAIN tfile.data) = 2

\* C2: no two processes are between the load and the save of a
\* read-modify-write cycle at the same time.
C2_ExclusiveCycle ==
    \A p, q \in Procs :
        p # q => ~(pc[p] \in SaveLabels /\ pc[q] \in SaveLabels)

\* C3: in one process, a call of choose_template that returned template t has
\* left the file with uses[t] one greater than before the call and every
\* other counter as it was.
C3_UsesRaisedByOne ==
    \A p \in Procs :
        (brain = "template" /\ pc[p] = "returned" /\ ViaChooseTemplate(p)) =>
            /\ tfile.kind = "ok"
            /\ LET old == OldTemplateStats(p)
                   new == tfile.data
                   t   == chosen[p]
               IN  /\ BundleOf(new, t).uses = BundleOf(old, t).uses + 1
                   /\ BundleOf(new, t).success = BundleOf(old, t).success
                   /\ \A u \in (DOMAIN old \cup DOMAIN new) \ {t} :
                         BundleOf(new, u) = BundleOf(old, u)

\* a choose_template call returned a template that had been used before
C3_Witness ==
    \E p \in Procs :
        /\ brain = "template" /\ pc[p] = "returned"
        /\ call[p].op = "choose_template"
        /\ pre[p].kind = "ok"
        /\ pre[p].data[chosen[p]].uses = 1
        /\ tfile.data[chosen[p]].uses = 2

\* the dimension a Mode B selection draws from
DimensionOf(op) ==
    IF op = "choose_best_niche" THEN "niches" ELSE "countries"

ModeB == {"choose_best_niche", "choose_best_country"}

\* sent of candidate c in dimension d of the file f, 0 when not there
SentIn(f, d, c) ==
    IF f.kind = "ok" /\ c \in DOMAIN f.data[d] THEN f.data[d][c].sent ELSE 0

\* C4 as claimed: when choose_best_niche or choose_best_country returns c,
\* the sent counter of c in the file is one greater than before the call.
C4_SelectionCounted ==
    \A p \in Procs :
        (brain = "outreach" /\ pc[p] = "returned" /\ call[p].op \in ModeB) =>
            /\ sfile.kind = "ok"
            /\ SentIn(sfile, DimensionOf(call[p].op), chosen[p])
                 = SentIn(pre[p], DimensionOf(call[p].op), chosen[p]) + 1

\* C4 as amended: choose_best_niche and choose_best_country raise no
\* counter.  A stats file that was there when the call started is left as it
\* was; when there was none, the file holds the store the call's load
\* returned.
C4_SelectionNotCounted ==
    \A p \in Procs :
        (brain = "outreach" /\ pc[p] = "returned" /\ call[p].op \in ModeB) =>
            IF pre[p].kind = "absent"
            THEN sfile = File("ok", loaded[p])
            ELSE sfile = pre[p]

\* choose_best_niche returned a niche with history and sent 1 in the file
C4_Witness ==
    \E p \in Procs :
        /\ brain = "outreach" /\ pc[p] = "returned"
        /\ call[p].op = "choose_best_niche"
        /\ pre[p].kind = "ok"
        /\ chosen[p] \in DOMAIN pre[p].data.niches
        /\ SentIn(sfile, "niches", chosen[p]) = 1

\* C5 as claimed: whatever id is passed as preferred_template_id,
\* build_prompt_for_business returns it, and the policy is not consulted.
C5_PreferredReturned ==
    \A p \in Procs :
        ( /\ brain = "template" /\ pc[p] = "returned"
          /\ call[p].op = "build_prompt_for_business"
          /\ call[p].preferred_template_id # NoneVal ) =>
            /\ chosen[p] = call[p].preferred_template_id
            /\ obs[p] = "none"

\* C5 as amended: a preferred id that names a template of the catalog is
\* returned whatever the file holds, and neither the file nor the random
\* draw is consulted.
C5_CatalogPreferredReturned ==
    \A p \in Procs :
        ( /\ brain = "template" /\ pc[p] = "returned"
          /\ call[p].op = "build_prompt_for_business"
          /\ call[p].preferred_template_id \in TemplateIds ) =>
            /\ chosen[p] = call[p].preferred_template_id
            /\ obs[p] = "none"
            /\ tfile = pre[p]

\* a preferred catalog id was returned over a store with history
C5_Witness ==
    \E p \in Procs :
        /\ brain = "template" /\ pc[p] = "returned"
        /\ call[p].op = "build_prompt_for_business"
        /\ call[p].preferred_template_id = "pro_modern"
        /\ chosen[p] = "pro_modern"
        /\ tfile.kind = "ok"
        /\ \E t \in DOMAIN tfile.data : tfile.data[t].uses > 0

\* C6: after build_prompt_for_business returned t because t was passed as
\* preferred_template_id, uses[t] in the file is one greater than before.
C6_PreferredCounted ==
    \A p \in Procs :
        ( /\ brain = "template" /\ pc[p] = "returned"
          /\ call[p].op = "build_prompt_for_business"
          /\ call[p].preferred_template_id \in TemplateIds
          /\ chosen[p] = call[p].preferred_template_id ) =>
            /\ tfile.kind = "ok"
            /\ BundleOf(tfile.data, chosen[p]).uses
                 = BundleOf(OldTemplateStats(p), chosen[p]).uses + 1

\* C7: a load that finds the file unparseable does not raise; it returns a
\* store of zero counters and has put that store in the file.
C7_UnparseableFileReplaced ==
    \A p \in Procs :
        obs[p] \in {"garbage", "trunc"} =>
            /\ err[p] # "JSONDecodeError"
            /\ JustLoaded(p) =>
                  /\ ZeroStore(loaded[p])
                  /\ TheFile = File("ok", loaded[p])

\* C8: a load that finds no file returns a store of zero counters and has put
\* exactly that store in the file.
C8_AbsentFileZeroed ==
    \A p \in Procs :
        (obs[p] = "absent" /\ JustLoaded(p)) =>
            /\ ZeroStore(loaded[p])
            /\ TheFile = File("ok", loaded[p])

\* C9: no load ever finds the file empty or cut short by a save.
C9_SaveIsAtomic ==
    \A p \in Procs : obs[p] # "trunc"

\* C10: a call in which a write of the stats file failed ends in an error at
\* the caller; it does not go on and does not return normally.
C10_WriteFailureRaises ==
    \A p \in Procs :
        failed[p] => pc[p] = "raised" /\ err[p] = "OSError"

\* the last save of a choose_template call failed, after the usage had been
\* recorded in stats
C10_Witness ==
    \E p \in Procs :
        /\ failed[p] /\ pc[p] = "raised"
        /\ call[p].op = "choose_template"
        /\ chosen[p] # NoneVal
        /\ stats[p] = RecordUsage(loaded[p], chosen[p])

\* the dict and the key a record_result call writes in each dimension
RecordedKeys(c) ==
    { <<"niches", c.niche>>, <<"countries", c.country>>,
      <<"subjects", c.subject>> }

\* C11: recording an outcome for an id that the store the call loaded does
\* not hold fails for no reason but the file (unparseable on the load, a
\* failed write); once the call has returned the file holds the id with the
\* counters of a zero bundle and the outcome on top, and every entry the
\* load returned is there as it was.
C11_UnknownIdAdded ==
    \A p \in Procs :
        /\ (call[p].op \in {"record_template_result", "record_result"}
              /\ pc[p] = "raised") =>
                /\ err[p] \in {"JSONDecodeError", "OSError"}
                /\ failed[p] \/ obs[p] \in {"garbage", "trunc"}
        /\ (pc[p] = "returned" /\ call[p].op = "record_template_result"
              /\ call[p].template_id \notin DOMAIN loaded[p]) =>
                /\ tfile.kind = "ok"
                /\ DOMAIN tfile.data = DOMAIN loaded[p] \cup {call[p].template_id}
                /\ tfile.data[call[p].template_id]
                     = [uses |-> 0, success |-> Bool2Int(call[p].success)]
                /\ \A u \in DOMAIN loaded[p] : tfile.data[u] = loaded[p][u]
        /\ (pc[p] = "returned" /\ call[p].op = "record_result") =>
                /\ sfile.kind = "ok"
                /\ \A dk \in RecordedKeys(call[p]) :
                     LET old == loaded[p][dk[1]]
                         new == sfile.data[dk[1]]
                     IN  /\ DOMAIN new = DOMAIN old \cup {dk[2]}
                         /\ \A m \in DOMAIN old \ {dk[2]} : new[m] = old[m]
                         /\ dk[2] \notin DOMAIN old =>
                               new[dk[2]] =
                                 [sent        |-> 1,
                                  opens       |-> Bool2Int(call[p].opened),
                                  clicks      |-> Bool2Int(call[p].clicked),
                                  conversions |-> Bool2Int(call[p].converted)]

\* an outcome was recorded for a template id that is in no catalog, over a
\* store in which another template had been used
C11_Witness ==
    \E p \in Procs :
        /\ brain = "template" /\ pc[p] = "returned"
        /\ call[p].op = "record_template_result"
        /\ call[p].template_id = "legacy_template" /\ call[p].success
        /\ "legacy_template" \notin DOMAIN loaded[p]
        /\ \E u \in DOMAIN loaded[p] : loaded[p][u].uses = 1
        /\ tfile.data["legacy_template"] = [uses |-> 0, success |-> 1]

\* C12: recording is not idempotent.  Every record_template_result(t, True)
\* call that has returned left success[t] in the file one greater than it
\* was when the call started, so n calls in a row raise it by n; the second
\* of two calls on a store that started empty leaves success[t] = 2.
C12_SuccessRaisedEachCall ==
    \A p \in Procs :
        ( /\ brain = "template" /\ pc[p] = "returned"
          /\ call[p].op = "record_template_result" /\ call[p].success ) =>
            /\ tfile.kind = "ok"
            /\ BundleOf(tfile.data, call[p].template_id).success
                 = BundleOf(OldTemplateStats(p), call[p].template_id).success
                   + 1

\* the second record_template_result(t, True) on a store that started empty
\* has returned: success[t] is 2
C12_Witness ==
    \E p \in Procs :
        /\ brain = "template" /\ pc[p] = "returned"
        /\ calls = 2 /\ tampers = 0
        /\ call[p].op = "record_template_result" /\ call[p].success
        /\ pre[p].kind = "ok"
        /\ BundleOf(pre[p].data, call[p].template_id)
             = [uses |-> 0, success |-> 1]
        /\ tfile.data[call[p].template_id] = [uses |-> 0, success |-> 2]

\* the store the last load of p returned, saved and loaded again
SavedAndLoaded(p) ==
    IF brain = "template" THEN TemplateFileOf(loaded[p]).data
    ELSE StatsFileOf(loaded[p]).data

\* the last load of p has returned a store
LoadReturned(p) ==
    /\ pc[p] \in SaveLabels \cup {"ct_load2", "returned"}
    /\ obs[p] # "none"

JustPicked(p) ==
    /\ brain = "template" /\ ViaChooseTemplate(p)
    /\ pc[p] = "ct_load2" /\ io[p] = "check"

\* C14: a bundle the selection scores with uses = 0 (sent = 0) gets one and
\* the same score whatever its other counters, never negative or undefined:
\* the smoothed rate of the zero bundle in choose_template, 0 in
\* _score_bucket.
C14_ZeroUseScoreConstant ==
    \A p \in Procs :
        /\ JustPicked(p) =>
              \A t \in DOMAIN loaded[p] :
                  loaded[p][t].uses = 0 =>
                      LET rate == success_rate(loaded[p][t])
                          zero == success_rate(ZeroBundle)
                      IN  /\ rate.den > 0 /\ rate.num >= 0
                          /\ rate.num * zero.den = zero.num * rate.den
        /\ ( /\ brain = "outreach" /\ pc[p] = "returned"
             /\ call[p].op \in ModeB ) =>
              \A k \in DOMAIN loaded[p][DimensionOf(call[p].op)] :
                  LET entry == loaded[p][DimensionOf(call[p].op)][k]
                  IN  entry.sent = 0 =>
                          _score_bucket(entry) = [num |-> 0, den |-> 1]

\* the bundles of the template store in the file
FileBundles ==
    IF brain = "template" /\ tfile.kind = "ok"
    THEN { tfile.data[t] : t \in DOMAIN tfile.data }
    ELSE {}

\* C15 as claimed: the smoothed rate of every bundle the store holds after
\* any sequence of calls lies in (0, 1].
C15_RateInUnitInterval ==
    \A b \in FileBundles :
        LET rate == success_rate(b)
        IN  /\ rate.den > 0 /\ rate.num > 0
            /\ rate.num <= rate.den

\* C15 as amended: the smoothed rate of every bundle the store holds is
\* positive; it is below 1 when success <= uses, at most 1 when
\* success <= uses + 1, and above 1 for the bundles with more successes,
\* which record_template_result makes without a selection.
C15_RateBoundedBySuccessOverUses ==
    \A b \in FileBundles :
        LET rate == success_rate(b)
        IN  /\ rate.den > 0 /\ rate.num > 0
            /\ b.success <= b.uses => rate.num < rate.den
            /\ b.success <= b.uses + 1 => rate.num <= rate.den
            /\ b.success > b.uses + 1 => rate.num > rate.den

\* the store holds a template that was selected once and succeeded once
C15_Witness ==
    /\ [uses |-> 1, success |-> 1] \in FileBundles
    /\ \E p \in Procs :
          pc[p] = "returned" /\ call[p].op = "record_template_result"

\* the place of template tid in the catalog
IndexOf(tid) == CHOOSE i \in 1..Len(TEMPLATES) : TEMPLATES[i].id = tid

\* a / b >= c / d for fractions with positive denominators
FracGeq(a, b, c, d) == a * d >= c * b

\* C16: for fixed uses the smoothed rate does not fall when success rises:
\* a record_template_result(t, True) call that has returned left neither the
\* rate of t nor, under any industry, its score in choose_template lower
\* than they were when the call started; and one more success would lower
\* the rate of no bundle in the file.
C16_SuccessNeverLowersScore ==
    /\ \A b \in FileBundles :
          FracGeq(success_rate([b EXCEPT !.success = @ + 1]).num,
                  success_rate([b EXCEPT !.success = @ + 1]).den,
                  success_rate(b).num, success_rate(b).den)
    /\ \A p \in Procs :
          ( /\ brain = "template" /\ pc[p] = "returned"
            /\ call[p].op = "record_template_result" /\ call[p].success
            /\ call[p].template_id \in TemplateIds ) =>
              LET t   == call[p].template_id
                  old == OldTemplateStats(p)
                  new == tfile.data
              IN  /\ BundleOf(new, t).uses = BundleOf(old, t).uses
                  /\ FracGeq(success_rate(BundleOf(new, t)).num,
                             success_rate(BundleOf(new, t)).den,
                             success_rate(BundleOf(old, t)).num,
                             success_rate(BundleOf(old, t)).den)
                  /\ \A industry \in AllIndustries :
                        FracGeq(Scored(new, industry)[IndexOf(t)],
                                DenProd(new, Len(TEMPLATES)),
                                Scored(old, industry)[IndexOf(t)],
                                DenProd(old, Len(TEMPLATES)))

\* a success was recorded for a catalog template that had been selected
\* once: its rate went from 1/3 to 2/3
C16_Witness ==
    \E p \in Procs :
        /\ brain = "template" /\ pc[p] = "returned"
        /\ call[p].op = "record_template_result" /\ call[p].success
        /\ call[p].template_id \in TemplateIds
        /\ BundleOf(OldTemplateStats(p), call[p].template_id)
             = [uses |-> 1, success |-> 0]
        /\ BundleOf(tfile.data, call[p].template_id)
             = [uses |-> 1, success |-> 1]

\* The scenario of C17 in the catalog of the source: the context is
\* "restaurant downtown", A is the template the context boosts by 3.0
\* (restaurant_premium), B is any template of weight 1.0 it does not boost;
\* the store is empty, one selection is made and it falls on A or on B.
RestaurantDowntown ==
    <<"r", "e", "s", "t", "a", "u", "r", "a", "n", "t", " ",
      "d", "o", "w", "n", "t", "o", "w", "n">>

CandidateA == "restaurant_premium"

CandidatesB ==
    { tid \in TemplateIds : niche_boosts(RestaurantDowntown)[tid] = 0 }

\* the one selection of the scenario has been made by p
ScenarioRun(p) ==
    /\ brain = "template" /\ config = "shipped"
    /\ pc[p] = "returned" /\ call[p].op = "choose_template"
    /\ call[p].industry = RestaurantDowntown
    /\ pre[p].kind = "absent"
    /\ tfile.kind = "ok"

\* the scores of A and of b over the store in the file, on one denominator
ScoreA == Scored(tfile.data, RestaurantDowntown)[IndexOf(CandidateA)]
ScoreB(b) == Scored(tfile.data, RestaurantDowntown)[IndexOf(b)]

\* C17 as claimed: after the selection the score of A is more than 80% of
\* the scores of A and B together.
C17_ShareAbove80 ==
    \A p \in Procs : ScenarioRun(p) =>
        \A b \in CandidatesB :
            chosen[p] \in {CandidateA, b} =>
                100 * ScoreA > 80 * (ScoreA + ScoreB(b))

\* C17 as amended: before the selection the score of A is 5/7 of the two
\* scores together; after it the share is 70% when A was selected and 75%
\* when B was: at least 70% and never above 80%.
C17_ShareBetween70And75 ==
    \A p \in Procs : ScenarioRun(p) =>
        \A b \in CandidatesB :
            /\ LET zero == Scored(ZeroTemplateStats, RestaurantDowntown)
               IN  7 * zero[IndexOf(CandidateA)]
                     = 5 * (zero[IndexOf(CandidateA)] + zero[IndexOf(b)])
            /\ chosen[p] = CandidateA =>
                  100 * ScoreA = 70 * (ScoreA + ScoreB(b))
            /\ chosen[p] = b =>
                  100 * ScoreA = 75 * (ScoreA + ScoreB(b))

\* the selection of the scenario fell on an unboosted template
C17_Witness ==
    \E p \in Procs :
        /\ ScenarioRun(p)
        /\ chosen[p] = "basic_clean"
        /\ tfile.data["basic_clean"].uses = 1
        /\ 100 * ScoreA = 75 * (ScoreA + ScoreB("basic_clean"))

\* the calls that select a candidate from a catalog or a global pool
CatalogSelections ==
    {"choose_template", "build_prompt_for_business",
     "choose_best_niche", "choose_best_country"}

\* C19: with an empty catalog (no template, empty global pools) a selection
\* does not return: it names no candidate, it ends in an error, and a stats
\* file that was there is left as it was.
C19_EmptyCatalogFailsFast ==
    \A p \in Procs :
        (config = "empty" /\ call[p].op \in CatalogSelections) =>
            /\ pc[p] # "returned"
            /\ chosen[p] = NoneVal
            /\ (pc[p] = "raised" /\ pre[p].kind = "ok") => TheFile = pre[p]

\* total_score of the i-th template of the catalog over the store st:
\* weight + boost + 2.0 * (success + 1) / (uses + 2), counted in halves and
\* kept as the fraction num / den
TotalScore(st, boosts, i) ==
    LET t == TEMPLATES[i]
        b == BundleOf(st, t.id)
    IN  [num |-> (t.weight + boosts[t.id]) * (b.uses + 2)
                 + 4 * (b.success + 1),
         den |-> b.uses + 2]

RECURSIVE CumulativeScore(_, _, _)
\* the total_score of the first n templates together, as a fraction
CumulativeScore(st, boosts, n) ==
    IF n = 0 THEN [num |-> 0, den |-> 1]
    ELSE LET a == CumulativeScore(st, boosts, n - 1)
             t == TotalScore(st, boosts, n)
         IN  [num |-> a.num * t.den + t.num * a.den, den |-> a.den * t.den]

\* the cumulative total_score of the first i templates reaches or exceeds
\* the draw r = (k / RandSteps) * (sum of all total_scores)
Reaches(st, boosts, i, k) ==
    LET c   == CumulativeScore(st, boosts, i)
        sum == CumulativeScore(st, boosts, Len(TEMPLATES))
    IN  c.num * sum.den * RandSteps >= k * sum.num * c.den

\* template i is the first in catalog order that Reaches
FirstReaching(st, boosts, i, k) ==
    /\ Reaches(st, boosts, i, k)
    /\ \A j \in 1..(i - 1) : ~Reaches(st, boosts, j, k)

\* C20: the wheel of choose_template, turned over the store its first load
\* returned, gives for every draw r in [0, sum) the first template in
\* catalog order whose cumulative total_score reaches or exceeds r, with
\* total_score = weight + boost + 2.0 * (success + 1) / (uses + 2); the
\* template chosen is a member of the catalog and is that first template
\* for some draw.
C20_FirstTemplateReachingDraw ==
    \A p \in Procs : JustPicked(p) =>
        LET st     == loaded[p]
            boosts == niche_boosts(call[p].industry)
        IN  /\ chosen[p] \in TemplateIds
            /\ \E k \in 0..(RandSteps - 1) :
                  FirstReaching(st, boosts, IndexOf(chosen[p]), k)
            /\ \A k \in 0..(RandSteps - 1) :
                  FirstReaching(st, boosts,
                                IndexOf(Roulette(st, call[p].industry, k)), k)

\* over a store with history the wheel stopped on the boosted template,
\* past four templates that come before it in the catalog
C20_Witness ==
    \E p \in Procs :
        /\ JustPicked(p)
        /\ call[p].industry = RestaurantDowntown
        /\ chosen[p] = "restaurant_premium"
        /\ \E t \in DOMAIN loaded[p] : loaded[p][t].uses > 0
        /\ \E k \in 1..(RandSteps - 1) :
              FirstReaching(loaded[p], niche_boosts(RestaurantDowntown),
                            IndexOf("restaurant_premium"), k)

(* ---- C21 --------------------------------------------------------------- *)

\* kw occurs in text as a run of consecutive characters
Occurs(kw, text) ==
    \E i \in 1..Len(text) :
        /\ i + Len(kw) - 1 <= Len(text)
        /\ SubSeq(text, i, i + Len(kw) - 1) = kw

\* the keyword groups with the bonus, in halves, each gives to the
\* templates it names
BonusGroups ==
    << [kws |-> TradeKeywords,
        bonus |-> ("pro_modern" :> 3) @@ ("ultra_dark" :> 2)],
       [kws |-> FoodKeywords,
        bonus |-> ("restaurant_premium" :> 6) @@ ("premium_gradient" :> 2)],
       [kws |-> RealEstateKeywords,
        bonus |-> ("realtor_premium" :> 6) @@ ("pro_modern" :> 2)],
       [kws |-> ProfessionalKeywords,
        bonus |-> ("basic_clean" :> 3) @@ ("pro_modern" :> 2)] >>

GroupMatches(g, industry) ==
    /\ industry # NoneText
    /\ \E n \in 1..Len(BonusGroups[g].kws) :
          Occurs(BonusGroups[g].kws[n], lower(industry))

\* what group g adds to the boost of tid for this industry text
GroupBonus(g, industry, tid) ==
    IF GroupMatches(g, industry) /\ tid \in DOMAIN BonusGroups[g].bonus
    THEN BonusGroups[g].bonus[tid] ELSE 0

RoofingLawRealtor ==
    <<"R", "o", "o", "f", "i", "n", "g", " ", "L", "a", "w", " ",
      "R", "e", "a", "l", "t", "o", "r">>

\* C21: the boost choose_template gives a template is the sum of the
\* bonuses of every keyword group that matches the lower-cased industry
\* text by substring; the groups are not exclusive (pro_modern gets
\* 1.5 + 1.0 + 1.0 when the trade, real-estate and professional groups
\* all match), and a template no matching group names has boost 0.
C21_BoostIsSumOfMatchingGroups ==
    \A p \in Procs : JustPicked(p) =>
        LET industry == call[p].industry
            boosts   == niche_boosts(industry)
        IN  /\ \A tid \in TemplateIds :
                  /\ boosts[tid] = GroupBonus(1, industry, tid)
                                   + GroupBonus(2, industry, tid)
                                   + GroupBonus(3, industry, tid)
                                   + GroupBonus(4, industry, tid)
                  /\ (\A g \in 1..4 : ~GroupMatches(g, industry)
                                      \/ tid \notin DOMAIN BonusGroups[g].bonus)
                        => boosts[tid] = 0
            /\ industry = RoofingLawRealtor =>
                  /\ \A g \in {1, 3, 4} : GroupMatches(g, industry)
                  /\ boosts["pro_modern"] = 3 + 2 + 2
                  /\ boosts["restaurant_premium"] = 0

\* a template was picked for an industry text in mixed case that three
\* groups match
C21_Witness ==
    \E p \in Procs :
        /\ JustPicked(p)
        /\ call[p].industry = RoofingLawRealtor
        /\ niche_boosts(call[p].industry)["pro_modern"] = 7
        /\ chosen[p] = "pro_modern"

(* ---- C22 --------------------------------------------------------------- *)

\* the selections over a bucket and a pool, with the pool of each
SelectionOps == {"choose_best_niche", "choose_best_country"}

PoolOf(op) ==
    IF op = "choose_best_niche" THEN GLOBAL_NICHES ELSE GLOBAL_COUNTRIES

\* the bucket of a store the selection op looks at
BucketOf(s, op) ==
    IF op = "choose_best_niche" THEN s.niches ELSE s.countries

\* the selection of process p ended over the store its load returned
Selected(p) ==
    /\ brain = "outreach"
    /\ call[p].op \in SelectionOps
    /\ pc[p] \in {"returned", "raised"}
    /\ loaded[p] # NoStats

\* the next step of process p is the selection, made over a store with no
\* history in the dimension of the call
AboutToSelectBlind(p) ==
    /\ brain = "outreach"
    /\ call[p].op \in SelectionOps
    /\ pc[p] \in {"cn_load", "cc_load"}
    /\ \/ /\ io[p] = "check" /\ sfile.kind = "ok"
          /\ DOMAIN BucketOf(sfile.data, call[p].op) = {}
       \/ /\ io[p] = "dump"
          /\ DOMAIN BucketOf(stats[p], call[p].op) = {}

\* the step of process p that makes the selection
SelectionStep(p) == load_stats(p) \/ save_stats_dump(p)

\* C22: when the store a selection loaded has no history in its dimension
\* (stats["niches"] / stats["countries"] is empty), choose_best_niche /
\* choose_best_country takes the exploration branch, never the
\* exploitation branch, and what it returns is a member of the static
\* global pool; before the selection every member of the pool is a
\* possible result.
C22_NoHistoryExplores ==
    \A p \in Procs :
        /\ ( Selected(p) /\ DOMAIN BucketOf(loaded[p], call[p].op) = {} ) =>
              /\ branch[p] = "explore"
              /\ pc[p] = "returned" =>
                    chosen[p] \in Range(PoolOf(call[p].op))
        /\ AboutToSelectBlind(p) =>
              \A c \in Range(PoolOf(call[p].op)) :
                  ENABLED ( /\ SelectionStep(p)
                            /\ chosen'[p] = c
                            /\ branch'[p] = "explore"
                            /\ pc'[p] = "returned" )

\* a selection over a store without history returned a member of the pool
\* that is not the first of it
C22_Witness ==
    \E p \in Procs :
        /\ Selected(p) /\ pc[p] = "returned"
        /\ call[p].op = "choose_best_country"
        /\ DOMAIN loaded[p].countries = {}
        /\ branch[p] = "explore"
        /\ chosen[p] \in Range(GLOBAL_COUNTRIES)
        /\ chosen[p] # GLOBAL_COUNTRIES[1]

(* ---- C23 --------------------------------------------------------------- *)

\* score(a) <= score(b) - 0.01
LowerByNoise(a, b) ==
    LET sa == _score_bucket(a)
        sb == _score_bucket(b)
    IN  100 * (sb.num * sa.den - sa.num * sb.den) >= sa.den * sb.den

\* score(a) = score(b)
SameScore(a, b) ==
    _score_bucket(a).num * _score_bucket(b).den
        = _score_bucket(b).num * _score_bucket(a).den

\* score(a) + ja * 0.01 / JitterSteps >= score(b) + jb * 0.01 / JitterSteps
NoisyGeq(a, ja, b, jb) ==
    LET sa == _score_bucket(a)
        sb == _score_bucket(b)
    IN  (sa.num * sb.den - sb.num * sa.den) * 100 * JitterSteps
          >= (jb - ja) * sa.den * sb.den

\* the next step of process p is the selection, made over a store with
\* history in the dimension of the call
AboutToSelectInformed(p) ==
    /\ brain = "outreach"
    /\ call[p].op \in SelectionOps
    /\ pc[p] \in {"cn_load", "cc_load"}
    /\ io[p] = "check" /\ sfile.kind = "ok"
    /\ DOMAIN BucketOf(sfile.data, call[p].op) # {}

RawScore(e) == e.conversions * 10 + e.clicks * 3 + e.opens

Max(a, b) == IF a >= b THEN a ELSE b

\* the bundles a selection that ended has scored: those of the bucket of
\* its dimension in the store its load returned
ScoredBundles(p) ==
    IF Selected(p) /\ branch[p] = "exploit"
    THEN LET bucket == BucketOf(loaded[p], call[p].op)
         IN  { bucket[k] : k \in DOMAIN bucket }
    ELSE {}

\* C24 as stated: for every outreach bundle of non-negative integers,
\* sent = 0 with non-zero opens, clicks or conversions included,
\* _score_bucket returns
\* (conversions * 10 + clicks * 3 + opens * 1) / max(sent, 1).
C24_ScoreOverMaxSentOne ==
    \A p \in Procs : \A e \in ScoredBundles(p) :
        _score_bucket(e).num * Max(e.sent, 1)
            = RawScore(e) * _score_bucket(e).den

\* C24 (amended): for every outreach bundle with sent >= 1 _score_bucket
\* returns (conversions * 10 + clicks * 3 + opens * 1) / sent; for a bundle
\* with sent = 0 it returns 0.0 whatever opens, clicks and conversions
\* are, so that in the exploitation branch such a bundle never wins over a
\* candidate of positive score.
C24_ScoreZeroWithoutSends ==
    \A p \in Procs :
        /\ \A e \in ScoredBundles(p) :
              /\ e.sent >= 1 =>
                    _score_bucket(e).num * e.sent
                        = RawScore(e) * _score_bucket(e).den
              /\ e.sent = 0 => _score_bucket(e).num = 0
              /\ _score_bucket(e).den > 0
        /\ ( Selected(p) /\ pc[p] = "returned" /\ branch[p] = "exploit" ) =>
              LET bucket == BucketOf(loaded[p], call[p].op)
              IN  ( \E m \in DOMAIN bucket :
                        bucket[m].sent >= 1 /\ RawScore(bucket[m]) > 0 )
                    => bucket[chosen[p]].sent >= 1

\* exploitation ran over a bucket that holds a bundle with opens counted
\* and no send, and returned a niche that was sent to
C24_Witness ==
    \E p \in Procs :
        /\ Selected(p) /\ pc[p] = "returned" /\ branch[p] = "exploit"
        /\ \E e \in ScoredBundles(p) : e.sent = 0 /\ e.opens > 0
        /\ \E e \in ScoredBundles(p) : e.sent >= 2 /\ RawScore(e) > 0
        /\ BucketOf(loaded[p], call[p].op)[chosen[p]].sent >= 1

(* ---- C25 --------------------------------------------------------------- *)

\* the entry of key in bucket, a zero entry when it is not there
EntryOf(bucket, key) ==
    IF key \in DOMAIN bucket THEN bucket[key] ELSE ZeroBucket

\* what one send with the flags of call c adds to a bundle of counters
Increment(c) ==
    [sent        |-> 1,
     opens       |-> Bool2Int(c.opened),
     clicks      |-> Bool2Int(c.clicked),
     conversions |-> Bool2Int(c.converted)]

Plus(e, d) ==
    [sent        |-> e.sent + d.sent,
     opens       |-> e.opens + d.opens,
     clicks      |-> e.clicks + d.clicks,
     conversions |-> e.conversions + d.conversions]

TotalsOf(s) ==
    [sent        |-> s.total_sent,
     opens       |-> s.total_opens,
     clicks      |-> s.total_clicks,
     conversions |-> s.total_conversions]

RecordResultReturned(p) ==
    /\ brain = "outreach"
    /\ call[p].op = "record_result"
    /\ pc[p] = "returned"

\* C25: one record_result call raises by exactly one sent and those of
\* opens, clicks, conversions whose flag is true, in the bundle of the
\* named niche, of the named country, of the named subject and in the four
\* totals, over the store the call loaded; a flag that is false raises
\* nothing (converted alone raises neither opens nor clicks), and the
\* counters of every other niche, country and subject are as they were.
C25_OneSendPerCall ==
    \A p \in Procs : RecordResultReturned(p) =>
        /\ sfile.kind = "ok"
        /\ TotalsOf(sfile.data) = Plus(TotalsOf(loaded[p]), Increment(call[p]))
        /\ \A dk \in RecordedKeys(call[p]) :
              LET old == loaded[p][dk[1]]
                  new == sfile.data[dk[1]]
              IN  /\ DOMAIN new = DOMAIN old \cup {dk[2]}
                  /\ new[dk[2]] = Plus(EntryOf(old, dk[2]), Increment(call[p]))
                  /\ \A m \in DOMAIN old \ {dk[2]} : new[m] = old[m]

\* a conversion alone was recorded for a niche, a country and a subject
\* that had history, next to a niche that was not named
C25_Witness ==
    \E p \in Procs :
        /\ RecordResultReturned(p)
        /\ call[p].converted /\ ~call[p].opened /\ ~call[p].clicked
        /\ call[p].niche \in DOMAIN loaded[p].niches
        /\ loaded[p].niches[call[p].niche].sent > 0
        /\ DOMAIN loaded[p].niches \ {call[p].niche} # {}
        /\ sfile.data.niches[call[p].niche].conversions
             = loaded[p].niches[call[p].niche].conversions + 1
        /\ sfile.data.niches[call[p].niche].opens
             = loaded[p].niches[call[p].niche].opens
        /\ sfile.data.total_conversions = loaded[p].total_conversions + 1

(* ---- C26 --------------------------------------------------------------- *)

RecordTemplateResultReturned(p) ==
    /\ brain = "template"
    /\ call[p].op = "record_template_result"
    /\ pc[p] = "returned"

\* C26: a success without a use is accepted and not clamped.  A
\* record_template_result(t, True) call on a store where uses[t] = 0 (t
\* never selected, or not in the store) leaves success[t] one greater than
\* it was and uses[t] unchanged, so success[t] > uses[t]; no call changes
\* the uses of any template, and a call with success = False changes no
\* counter.
C26_SuccessWithoutUseCounted ==
    \A p \in Procs : RecordTemplateResultReturned(p) =>
        LET old == OldTemplateStats(p)
            t   == call[p].template_id
        IN  /\ tfile.kind = "ok"
            /\ t \in DOMAIN tfile.data
            /\ \A u \in DOMAIN tfile.data :
                  tfile.data[u].uses = BundleOf(old, u).uses
            /\ ( call[p].success /\ BundleOf(old, t).uses = 0 ) =>
                  /\ tfile.data[t].success = BundleOf(old, t).success + 1
                  /\ tfile.data[t].uses = 0
                  /\ tfile.data[t].success > tfile.data[t].uses
            /\ ~call[p].success =>
                  \A u \in DOMAIN tfile.data :
                      tfile.data[u] = BundleOf(old, u)

\* a success was recorded for a catalog template that was never selected,
\* in a store where another template has been used
C26_Witness ==
    \E p \in Procs :
        /\ RecordTemplateResultReturned(p)
        /\ call[p].success
        /\ call[p].template_id \in TemplateIds
        /\ pre[p].kind = "ok"
        /\ pre[p].data[call[p].template_id] = ZeroBundle
        /\ \E u \in DOMAIN pre[p].data : pre[p].data[u].uses > 0
        /\ tfile.data[call[p].template_id] = [uses |-> 0, success |-> 1]

(* ---- C27 --------------------------------------------------------------- *)

\* send_email was never called for an address of the do-not-contact file
NoSendToDoNotContact ==
    \A i \in 1..Len(sends) : ~sends[i].in_dnc

\* send_email was never called for an address the log already held
NoSendToLogged ==
    \A i \in 1..Len(sends) : ~sends[i].in_log

\* within one invocation send_email was called once per address at most
NoSendTwiceInOneRun ==
    \A i, j \in 1..Len(sends) :
        ( i # j /\ sends[i].run = sends[j].run /\ sends[i].p = sends[j].p )
            => lower(strip(sends[i].to)) # lower(strip(sends[j].to))

\* C27: across any sequence of run_engine invocations that share the leads
\* log and the do-not-contact file, send_email is never called for an
\* address that, case-insensitively, is in the do-not-contact file or is
\* already in the log (whether that send succeeded or failed), and within
\* one invocation no address is sent to twice.
C27_NoRepeatedContact ==
    /\ NoSendToDoNotContact
    /\ NoSendToLogged
    /\ NoSendTwiceInOneRun

(* ---- C28 --------------------------------------------------------------- *)

\* the rows of the log the engine appended
EngineRows ==
    IF leads_log.kind = "absent" THEN {}
    ELSE { leads_log.lines[r] :
             r \in { q \in 1..Len(leads_log.lines) :
                       /\ Len(leads_log.lines[q]) = Len(LOG_HEADER)
                       /\ leads_log.lines[q] # LOG_HEADER } }

\* C28: the SMTP rotation is round-robin.  With n >= 1 accounts the k-th
\* call of choose_smtp_account in a process, k counted from 0, returns
\* account k mod n, so that any n calls in a row use every account exactly
\* once; with no account it raises and SEND_INDEX stays as it was; and the
\* sender written to the leads log for a send is that of the account the
\* send used.
C28_RoundRobin ==
    LET n == Len(SMTP_ACCOUNTS)
    IN  /\ \A p \in Procs :
              /\ SEND_INDEX[p] = Len(rotation[p])
              /\ n >= 1 =>
                    /\ \A k \in 1..Len(rotation[p]) :
                          rotation[p][k] = (k - 1) % n
                    /\ \A first \in 1..(Len(rotation[p]) - n + 1) :
                          { rotation[p][first + j] : j \in 0..(n - 1) }
                              = 0..(n - 1)
              /\ n = 0 =>
                    /\ rotation[p] = << >>
                    /\ SEND_INDEX[p] = 0
                    /\ call[p].op = "choose_smtp_account" =>
                          pc[p] = "raised"
              /\ ( call[p].op = "choose_smtp_account" /\ n >= 1 ) =>
                    /\ pc[p] = "returned"
                    /\ chosen[p] = (SEND_INDEX[p] - 1) % n
        /\ \A i \in 1..Len(sends) :
              IF n = 0
              THEN sends[i].account = -1 /\ sends[i].sender_used = Unknown
              ELSE /\ sends[i].account \in 0..(n - 1)
                   /\ sends[i].sender_used
                        = SMTP_ACCOUNTS[sends[i].account + 1].sender
        /\ \A row \in EngineRows :
              \E i \in 1..Len(sends) :
                  /\ sends[i].to = row[3]
                  /\ sends[i].sender_used = row[9]

\* with two accounts a process made three sends: the third went out from
\* the first account again, and the log names that sender
C28_Witness ==
    \E p \in Procs :
        /\ brain = "engine"
        /\ Len(SMTP_ACCOUNTS) = 2
        /\ rotation[p] = <<0, 1, 0>>
        /\ Len(sends) = 3
        /\ sends[3].sender_used = SMTP_ACCOUNTS[1].sender
        /\ leads_log.kind = "ok"
        /\ Len(leads_log.lines) >= 4
        /\ leads_log.lines[Len(leads_log.lines)][9] = SMTP_ACCOUNTS[1].sender
        /\ leads_log.lines[Len(leads_log.lines) - 1][9]
             = SMTP_ACCOUNTS[2].sender

(* ---- C29 --------------------------------------------------------------- *)

RECURSIVE SumField(_, _, _)
\* the sum of one counter over the keys K of a bucket dict
SumField(bucket, K, field) ==
    IF K = {} THEN 0
    ELSE LET k == CHOOSE x \in K : TRUE
         IN  bucket[k][field] + SumField(bucket, K \ {k}, field)

\* the totals of store s agree with each of its three dimensions
TotalsAgree(s) ==
    \A dim \in {"niches", "countries", "subjects"} :
        /\ s.total_sent = SumField(s[dim], DOMAIN s[dim], "sent")
        /\ s.total_opens = SumField(s[dim], DOMAIN s[dim], "opens")
        /\ s.total_clicks = SumField(s[dim], DOMAIN s[dim], "clicks")
        /\ s.total_conversions
             = SumField(s[dim], DOMAIN s[dim], "conversions")

\* C29: in every state of the outreach store that one process reaches by
\* record_result, choose_subject, choose_best_niche and choose_best_country
\* calls, the stats file being deleted or made unparseable between calls
\* or not, the totals agree with the buckets: total_sent is the sum of sent
\* over the niches, over the countries and over the subjects, and likewise
\* total_opens, total_clicks and total_conversions.
C29_TotalsAgreeWithBuckets ==
    ( brain = "outreach" /\ sfile.kind = "ok" ) => TotalsAgree(sfile.data)

(* ---- C30 --------------------------------------------------------------- *)

\* the calls that end with a save of the store
SavingOps ==
    {"choose_template", "build_prompt_for_business",
     "record_template_result", "record_result", "choose_subject"}

\* process p has returned from a call that saved stats[p]: that store was
\* the content of the file when its save ended
HasSaved(p) ==
    /\ brain \in {"template", "outreach"}
    /\ pc[p] = "returned"
    /\ call[p].op \in SavingOps
    /\ stats[p] # NoStats

\* every counter of bucket dict now is at least what it was in before
BucketsGeq(now, before) ==
    \A k \in DOMAIN before :
        \A field \in DOMAIN before[k] :
            k \in DOMAIN now /\ now[k][field] >= before[k][field]

\* every counter of the file is at least its value in the store s
FileGeq(s) ==
    IF brain = "template" THEN BucketsGeq(tfile.data, s)
    ELSE /\ BucketsGeq(sfile.data.niches, s.niches)
         /\ BucketsGeq(sfile.data.countries, s.countries)
         /\ BucketsGeq(sfile.data.subjects, s.subjects)
         /\ sfile.data.total_sent >= s.total_sent
         /\ sfile.data.total_opens >= s.total_opens
         /\ sfile.data.total_clicks >= s.total_clicks
         /\ sfile.data.total_conversions >= s.total_conversions

\* C30: persisted counters never decrease.  With the stats file neither
\* deleted nor corrupted from outside, across any interleaving of
\* choose_template, record_template_result, record_result and
\* choose_subject calls by concurrent processes, every counter in the file
\* is at least the value it had in the file at any earlier time: at least
\* the value it had when a call that has returned since saved it.
C30_CountersNeverDecrease ==
    \A p \in Procs :
        ( HasSaved(p) /\ tampers = 0 /\ TheFile.kind = "ok" ) =>
            FileGeq(stats[p])

====
